---------------------------- MODULE Spec2Model ----------------------------
(***************************************************************************)
(* WEEE image classification pipeline: the classifier of                   *)
(* app/agents/weee_classifier.py and the object detector of                *)
(* app/services/vision.py.                                                 *)
(*                                                                         *)
(* Conventions.  A Python str is a sequence of one-character strings, so   *)
(* that substring search, lower() and join are computed and not assumed.   *)
(* An Optional value is a sequence of length 0 (None) or 1 (Some(v)).      *)
(* A confidence is an integer number of tenths (9 stands for 0.9).  A      *)
(* float ratio is a record [num, den] compared by cross-multiplication.    *)
(***************************************************************************)
EXTENDS Integers, Sequences, FiniteSets, TLC

None == <<>>
Some(x) == <<x>>
Val(o) == o[1]

(***************************************************************************)
(* Bounds of the model.                                                    *)
(***************************************************************************)
MaxObjs == 2   \* objects in a detector output handed to the classifier
MaxDets == 2   \* detections in one provider response
MaxCoord == 2   \* largest x and y of a box given to the IoU functions
MaxSide == 2    \* largest width and height of such a box
MaxInvocations == 2   \* concurrent analyze_image_bytes calls
MaxMsgs == 2           \* messages in one Meta payload
MaxAnObjs == 3 \* objects in the detector result handed to the analyze route

(***************************************************************************)
(* Reference data of weee_classifier.py.                                   *)
(***************************************************************************)
CATEGORIES ==
    << [id |-> 1, name |-> <<"E","q","u","i","p","a","m","e","n","t","o","s"," ","d","e"," ","t","r","o","c","a"," ","d","e"," ","t","e","m","p","e","r","a","t","u","r","a">>],
       [id |-> 2, name |-> <<"E","c","r","ã","s","/","M","o","n","i","t","o","r","e","s"," ","(",">","1","0","0"," ","c","m","²",")">>],
       [id |-> 3, name |-> <<"L","â","m","p","a","d","a","s">>],
       [id |-> 4, name |-> <<"G","r","a","n","d","e","s"," ","(","d","i","m","e","n","s","ã","o"," ",">"," ","5","0","c","m",")">>],
       [id |-> 5, name |-> <<"P","e","q","u","e","n","o","s"," ","(","d","i","m","e","n","s","ã","o"," ","<","="," ","5","0","c","m",")">>],
       [id |-> 6, name |-> <<"T","I","C"," ","p","e","q","u","e","n","a"," ","d","i","m","e","n","s","ã","o"," ","(","<","="," ","5","0","c","m",")">>] >>

KEYWORDS ==
    << << <<"r","e","f","r","i","g","e","r","a","d","o","r">>, <<"g","e","l","a","d","e","i","r","a">>,
          <<"f","r","i","g","o","r","í","f","i","c","o">>, <<"f","r","e","e","z","e","r">>,
          <<"c","o","n","g","e","l","a","d","o","r">>,
          <<"a","r","-","c","o","n","d","i","c","i","o","n","a","d","o">>,
          <<"a","r"," ","c","o","n","d","i","c","i","o","n","a","d","o">>,
          <<"c","o","n","d","i","c","i","o","n","a","d","o","r"," ","d","e"," ","a","r">>,
          <<"b","o","m","b","a"," ","d","e"," ","c","a","l","o","r">>, <<"h","e","a","t"," ","p","u","m","p">>,
          <<"a","i","r"," ","c","o","n","d","i","t","i","o","n","e","r">>, <<"f","r","i","d","g","e">>,
          <<"c","o","o","l","e","r">> >>,
       << <<"t","e","l","e","v","i","s","o","r">>, <<"t","v">>, <<"s","m","a","r","t"," ","t","v">>,
          <<"m","o","n","i","t","o","r">>, <<"e","c","r","ã">>, <<"t","e","l","a">>,
          <<"l","a","p","t","o","p">>, <<"n","o","t","e","b","o","o","k">>, <<"t","a","b","l","e","t">>,
          <<"d","i","s","p","l","a","y">>, <<"s","c","r","e","e","n">> >>,
       << <<"l","â","m","p","a","d","a">>, <<"l","a","m","p","a","d","a">>, <<"l","a","m","p">>,
          <<"b","u","l","b","o">>, <<"l","i","g","h","t"," ","b","u","l","b">>,
          <<"f","l","u","o","r","e","s","c","e","n","t","e">>, <<"l","e","d">>,
          <<"i","n","c","a","n","d","e","s","c","e","n","t","e">>, <<"t","u","b","e">>, <<"t","u","b","o">> >>,
       << <<"m","á","q","u","i","n","a"," ","d","e"," ","l","a","v","a","r">>,
          <<"l","a","v","a","d","o","r","a">>, <<"s","e","c","a","d","o","r","a">>,
          <<"l","a","v","a","-","l","o","u","ç","a","s">>, <<"l","a","v","a"," ","l","o","u","ç","a","s">>,
          <<"d","i","s","h","w","a","s","h","e","r">>, <<"s","t","o","v","e">>, <<"f","o","g","ã","o">>,
          <<"o","v","e","n">>, <<"f","o","r","n","o">>, <<"r","a","n","g","e">>,
          <<"g","e","l","a","d","e","i","r","a"," ","g","r","a","n","d","e">> >>,
       << <<"a","s","p","i","r","a","d","o","r">>, <<"m","i","c","r","o","-","o","n","d","a","s">>,
          <<"m","i","c","r","o","o","n","d","a","s">>, <<"t","o","r","r","a","d","e","i","r","a">>,
          <<"f","e","r","r","o"," ","d","e"," ","p","a","s","s","a","r">>, <<"k","e","t","t","l","e">>,
          <<"c","h","a","l","e","i","r","a">>, <<"l","i","q","u","i","d","i","f","i","c","a","d","o","r">>,
          <<"b","l","e","n","d","e","r">>, <<"m","i","x","e","r">>, <<"c","â","m","e","r","a">>,
          <<"c","a","m","e","r","a">> >>,
       << <<"c","e","l","u","l","a","r">>, <<"t","e","l","e","f","o","n","e">>,
          <<"s","m","a","r","t","p","h","o","n","e">>, <<"p","h","o","n","e">>,
          <<"p","c"," ","p","e","q","u","e","n","o">>, <<"m","i","n","i"," ","p","c">>,
          <<"r","o","u","t","e","r">>, <<"r","o","t","e","a","d","o","r">>, <<"g","p","s">>,
          <<"c","a","l","c","u","l","a","d","o","r","a">>, <<"c","a","l","c","u","l","a","t","o","r">>,
          <<"m","o","d","e","m">>, <<"p","r","i","n","t","e","r">>,
          <<"i","m","p","r","e","s","s","o","r","a">>, <<"t","a","b","l","e","t">>,
          <<"n","o","t","e","b","o","o","k">>, <<"l","a","p","t","o","p">> >> >>

NON_EEE_KEYWORDS ==
    << <<"p","e","s","s","o","a">>, <<"p","e","r","s","o","n">>, <<"h","o","m","e","m">>,
       <<"m","u","l","h","e","r">>, <<"p","e","o","p","l","e">>, <<"b","o","y">>, <<"g","i","r","l">>,
       <<"d","o","g">>, <<"c","a","c","h","o","r","r","o">>, <<"c","a","t">>, <<"g","a","t","o">>,
       <<"a","n","i","m","a","l">>, <<"b","i","r","d">>, <<"p","a","s","s","a","r","o">>,
       <<"c","a","v","a","l","o">>, <<"á","r","v","o","r","e">>, <<"t","r","e","e">>,
       <<"p","l","a","n","t">>, <<"p","l","a","n","t","a">>, <<"f","l","o","r">>,
       <<"f","l","o","w","e","r">>, <<"g","r","a","s","s">>, <<"g","r","a","m","a">>,
       <<"l","a","n","d","s","c","a","p","e">>, <<"p","a","i","s","a","g","e","m">>, <<"s","k","y">>,
       <<"c","é","u">>, <<"b","e","a","c","h">>, <<"p","r","a","i","a">>, <<"o","c","e","a","n">>,
       <<"m","a","r">>, <<"m","o","n","t","a","n","h","a">>, <<"c","a","r">>, <<"c","a","r","r","o">>,
       <<"b","i","k","e">>, <<"b","i","c","y","c","l","e">>, <<"m","o","t","o">>,
       <<"m","o","t","o","r","c","y","c","l","e">>, <<"t","r","u","c","k">>,
       <<"c","a","m","i","n","h","ã","o">>, <<"b","u","s">>, <<"ô","n","i","b","u","s">>,
       <<"f","o","o","d">>, <<"c","o","m","i","d","a">>, <<"f","r","u","t","a">>, <<"f","r","u","i","t">>,
       <<"v","e","g","e","t","a","l">>, <<"v","e","g","e","t","a","b","l","e">>, <<"d","r","i","n","k">>,
       <<"b","e","b","i","d","a">>, <<"h","o","u","s","e">>, <<"c","a","s","a">>,
       <<"b","u","i","l","d","i","n","g">>, <<"p","r","é","d","i","o">>, <<"r","u","a">>,
       <<"s","t","r","e","e","t">>, <<"w","a","l","l">>, <<"p","a","r","e","d","e">>, <<"s","o","f","a">>,
       <<"c","o","u","c","h">>, <<"t","a","b","l","e">>, <<"m","e","s","a">>, <<"c","h","a","i","r">>,
       <<"c","a","d","e","i","r","a">>, <<"b","o","o","k">>, <<"l","i","v","r","o">> >>

(***************************************************************************)
(* Strings.                                                                *)
(***************************************************************************)
Str1(n) == << <<"0">>, <<"1">>, <<"2">>, <<"3">>, <<"4">>, <<"5">>, <<"6">>, <<"7">>, <<"8">>, <<"9">> >>[n + 1]

LowerMap ==
    [c \in {"A","B","C","D","E","F","G","H","I","J","K","L","M","N","O","P","Q","R","S","T",
            "U","V","W","X","Y","Z","Á","Â","Ã","Ç","É","Í","Ô"} |->
        CASE c = "A" -> "a" [] c = "B" -> "b" [] c = "C" -> "c" [] c = "D" -> "d"
          [] c = "E" -> "e" [] c = "F" -> "f" [] c = "G" -> "g" [] c = "H" -> "h"
          [] c = "I" -> "i" [] c = "J" -> "j" [] c = "K" -> "k" [] c = "L" -> "l"
          [] c = "M" -> "m" [] c = "N" -> "n" [] c = "O" -> "o" [] c = "P" -> "p"
          [] c = "Q" -> "q" [] c = "R" -> "r" [] c = "S" -> "s" [] c = "T" -> "t"
          [] c = "U" -> "u" [] c = "V" -> "v" [] c = "W" -> "w" [] c = "X" -> "x"
          [] c = "Y" -> "y" [] c = "Z" -> "z" [] c = "Á" -> "á" [] c = "Â" -> "â"
          [] c = "Ã" -> "ã" [] c = "Ç" -> "ç" [] c = "É" -> "é" [] c = "Í" -> "í"
          [] c = "Ô" -> "ô"]

\* str.lower()
Lower(s) == [i \in 1..Len(s) |-> IF s[i] \in DOMAIN LowerMap THEN LowerMap[s[i]] ELSE s[i]]

\* str.strip()
RECURSIVE Strip(_)
Strip(s) ==
    IF s = <<>> THEN s
    ELSE IF Head(s) = " " THEN Strip(Tail(s))
    ELSE IF s[Len(s)] = " " THEN Strip(SubSeq(s, 1, Len(s) - 1))
    ELSE s

\* k in t, for two str
Contains(k, t) ==
    \/ k = <<>>
    \/ \E i \in 1..(Len(t) - Len(k) + 1) : t[i] = k[1] /\ SubSeq(t, i, i + Len(k) - 1) = k

\* sep.join(texts)
RECURSIVE Join(_, _)
Join(texts, sep) ==
    IF texts = <<>> THEN <<>>
    ELSE IF Len(texts) = 1 THEN texts[1]
    ELSE texts[1] \o sep \o Join(Tail(texts), sep)

\* truthiness of an Optional[str]
Truthy(o) == o # None /\ Val(o) # <<>>

(***************************************************************************)
(* Helpers of weee_classifier.py.                                          *)
(***************************************************************************)
_norm(s) == Lower(Strip(s))

_token_hits(text, keywords) ==
    LET t == _norm(text)
    IN  Cardinality({i \in 1..Len(keywords) : Contains(keywords[i], t)})

ScoreSum(cat_scores) == cat_scores[1] + cat_scores[2] + cat_scores[3] + cat_scores[4] + cat_scores[5] + cat_scores[6]

\* _is_non_eee without the early return of lines 57-58
_is_non_eee_ignores_scores(text, cat_scores) ==
    _token_hits(text, NON_EEE_KEYWORDS) >= 2

\* _is_non_eee filtering on a single match
_is_non_eee_single_match(text, cat_scores) ==
    IF ScoreSum(cat_scores) > 0 THEN FALSE
    ELSE _token_hits(text, NON_EEE_KEYWORDS) >= 1

_is_non_eee(text, cat_scores) ==
    IF ScoreSum(cat_scores) > 0 THEN FALSE
    ELSE _token_hits(text, NON_EEE_KEYWORDS) >= 2

\* the loop of _pick_best_object without the caption tie-break of lines 68-70
RECURSIVE PickLoop_no_tiebreak(_, _, _)
PickLoop_no_tiebreak(objects, from, best) ==
    IF from > Len(objects) THEN best
    ELSE IF objects[from].confidence > best.confidence
         THEN PickLoop_no_tiebreak(objects, from + 1, objects[from])
         ELSE PickLoop_no_tiebreak(objects, from + 1, best)

\* the loop of _pick_best_object over objects[from..], best so far given
RECURSIVE PickLoop(_, _, _)
PickLoop(objects, from, best) ==
    IF from > Len(objects) THEN best
    ELSE LET o == objects[from]
         IN  IF o.confidence > best.confidence THEN PickLoop(objects, from + 1, o)
             ELSE IF o.confidence = best.confidence /\ Truthy(o.caption) /\ ~Truthy(best.caption)
                  THEN PickLoop(objects, from + 1, o)
             ELSE PickLoop(objects, from + 1, best)

_pick_best_object(objects) ==
    IF objects = <<>> THEN None ELSE Some(PickLoop(objects, 2, objects[1]))

Max(a, b) == IF a >= b THEN a ELSE b
Min(a, b) == IF a <= b THEN a ELSE b

_estimate_size_ratio(img_w, img_h, bbox) ==
    LET iw == Max(1, img_w)
        ih == Max(1, img_h)
        bw == Max(1, bbox.w)
        bh == Max(1, bbox.h)
    IN  [num |-> bw * bh, den |-> iw * ih]

\* size_ratio >= 0.20
_size_to_bucket(size_ratio) ==
    IF 5 * size_ratio.num >= size_ratio.den THEN "grande" ELSE "pequeno"

\* an object is a dict: one without the key "bbox" is a record without that field
HasBBox(o) == "bbox" \in DOMAIN o

size_agent(image_size, top_object) ==
    IF top_object = None \/ ~HasBBox(Val(top_object))
    THEN [img_size |-> image_size, object_bbox |-> None, size_ratio |-> None, size_bucket |-> None]
    ELSE LET ratio == _estimate_size_ratio(image_size[1], image_size[2], Val(top_object).bbox)
         IN  [img_size |-> image_size, object_bbox |-> Some(Val(top_object).bbox),
              size_ratio |-> Some(ratio), size_bucket |-> Some(_size_to_bucket(ratio))]

\* the list `texts` joined with " | " (rule_agent and classify_image_bytes build the same list)
CombinedText(image_caption, top_object) ==
    LET nameT == IF top_object # None /\ Val(top_object).name # <<>>
                 THEN << Val(top_object).name >> ELSE <<>>
        capT  == IF top_object # None /\ Truthy(Val(top_object).caption)
                 THEN << Val(Val(top_object).caption) >> ELSE <<>>
        imgT  == IF Truthy(image_caption) THEN << Val(image_caption) >> ELSE <<>>
    IN  Join(nameT \o capT \o imgT, <<" ", "|", " ">>)

CatScores(combined_text) == [cid \in 1..6 |-> _token_hits(combined_text, KEYWORDS[cid])]

CategoryIndex(cid) == CHOOSE i \in 1..Len(CATEGORIES) : CATEGORIES[i].id = cid
CategoryName(cid) == CATEGORIES[CategoryIndex(cid)].name

pref == <<1, 2, 3, 6, 4, 5>>
PrefIndex(cid) == CHOOSE i \in 1..Len(pref) : pref[i] = cid

\* line 132 with the two categories swapped
SizeFallbackCategory_swapped(size_bucket) == IF size_bucket = Some("grande") THEN 5 ELSE 4

\* line 132
SizeFallbackCategory(size_bucket) == IF size_bucket = Some("grande") THEN 4 ELSE 5

\* line 143 sorting the candidates by id instead of by preference
PickByPreference_by_id(candidates) == CHOOSE c \in candidates : \A d \in candidates : c <= d

\* lines 140-143: sorted(candidates, key=pref.index)[0]
PickByPreference(candidates) ==
    CHOOSE c \in candidates : \A d \in candidates : PrefIndex(c) <= PrefIndex(d)

MaxScore(cat_scores) == CHOOSE m \in {cat_scores[c] : c \in 1..6} : \A c \in 1..6 : cat_scores[c] <= m

rule_agent(image_caption, top_object, size_bucket) ==
    LET text == CombinedText(image_caption, top_object)
        cat_scores == CatScores(text)
    IN  IF \A c \in 1..6 : cat_scores[c] = 0
        THEN LET cid == SizeFallbackCategory(size_bucket)
             IN  [category_id |-> cid, category_name |-> CategoryName(cid), score |-> 1,
                  evidence |-> [source |-> "size_fallback", size_bucket |-> size_bucket, text |-> text]]
        ELSE LET best_score == MaxScore(cat_scores)
                 candidates == {c \in 1..6 : cat_scores[c] = best_score}
                 cid == PickByPreference(candidates)
             IN  [category_id |-> cid, category_name |-> CategoryName(cid), score |-> best_score,
                  evidence |-> [source |-> "keywords", scores |-> cat_scores, text |-> text,
                                size_bucket |-> size_bucket]]

\* lines 190-196 defaulting to the first option when the answer names none
ChosenId_default_first(all_options, text) ==
    LET hit(i) == \/ Contains(Str1(all_options[i].id), text)
                  \/ Contains(Lower(all_options[i].name), Lower(text))
        hits == {i \in 1..Len(all_options) : hit(i)}
    IN  IF hits = {} THEN Some(all_options[1].id)
        ELSE Some(all_options[CHOOSE i \in hits : \A j \in hits : i <= j].id)

\* the category the arbiter's answer names: the first option whose id or name occurs in it
ChosenId(all_options, text) ==
    LET hit(i) == \/ Contains(Str1(all_options[i].id), text)
                  \/ Contains(Lower(all_options[i].name), Lower(text))
        hits == {i \in 1..Len(all_options) : hit(i)}
    IN  IF hits = {} THEN None
        ELSE Some(all_options[CHOOSE i \in hits : \A j \in hits : i <= j].id)

\* env: what the process environment and the external agents service do in this call
_try_llm_arbiter(rule_choice, all_options, env) ==
    IF ~env.endpoint THEN None
    ELSE IF env.client = "raises" THEN None
    ELSE IF env.client = "failed" THEN None
    ELSE LET chosen_id == ChosenId(all_options, env.text)
         IN  IF chosen_id = None THEN None
             ELSE Some([category_id |-> Val(chosen_id),
                        category_name |-> CategoryName(Val(chosen_id)),
                        score |-> rule_choice.score,
                        evidence |-> [source |-> "llm_arbiter", llm_text |-> env.text]])

(***************************************************************************)
(* Sample texts the vision provider and the arbiter may return.            *)
(***************************************************************************)
T_refrigerator == <<"r","e","f","r","i","g","e","r","a","t","o","r">>
T_car == <<"c","a","r">>
T_geladeira_grande == <<"g","e","l","a","d","e","i","r","a"," ","g","r","a","n","d","e">>
T_dog_on_grass == <<"a"," ","d","o","g"," ","o","n"," ","g","r","a","s","s">>
T_phone_camera == <<"P","h","o","n","e"," ","C","a","m","e","r","a">>
T_car_street == <<"a"," ","c","a","r"," ","p","a","r","k","e","d"," ","o","n"," ","a"," ","s","t","r","e","e","t">>
T_nao_sei == <<"n","a","o"," ","s","e","i">>
T_three == <<"3">>
T_lampadas_upper == <<"L","Â","M","P","A","D","A","S">>
T_objeto == <<"o","b","j","e","t","o">>
T_a_car == <<"a"," ","c","a","r">>
T_street_with_cars == <<"s","t","r","e","e","t"," ","w","i","t","h"," ","c","a","r","s">>

ObjectNames == {T_refrigerator, T_car, T_geladeira_grande}
ObjectCaptions == {None, Some(T_dog_on_grass)}
SceneCaptions == {None, Some(T_phone_camera), Some(T_car_street)}
Confidences == {0, 9}
ImageSizes == {<<100, 100>>, <<200, 200>>}
Box == [x |-> 10, y |-> 10, w |-> 50, h |-> 50]
SessionId == "session"

SeqsUpTo(S, n) == UNION {[1..k -> S] : k \in 0..n}

\* the objects analyze_image_bytes can put in its result
DetectedObjects ==
    [name : ObjectNames, confidence : {9}, bbox : {Box}, caption : {None}]
    \cup [name : {T_car, T_geladeira_grande}, confidence : Confidences, bbox : {Box},
          caption : ObjectCaptions \ {None}]
    \cup [name : {T_refrigerator}, confidence : {9}, bbox : {Box}, caption : {Some(<<>>)}]

\* what visual_agent hands to classify_image_bytes
VisualAgentOutputs ==
    [image_caption : SceneCaptions, objects : SeqsUpTo(DetectedObjects, MaxObjs),
     original_url : {<<"/static/uploads/", SessionId, "/original.jpg">>}, session_id : {SessionId}]

ArbiterTexts == {<<>>, T_nao_sei, T_three, T_lampadas_upper}

\* the environment of one _try_llm_arbiter call: AGENTS_PROJECT_ENDPOINT set or not, and the
\* behaviour of the agents client (an exception, a failed run, a completed run with a text)
ArbiterEnvs ==
    {[endpoint |-> FALSE, client |-> "completed", text |-> <<>>]}
    \cup [endpoint : {TRUE}, client : {"raises", "failed"}, text : {<<>>}]
    \cup [endpoint : {TRUE}, client : {"completed"}, text : ArbiterTexts]

(***************************************************************************)
(* State of one classify_image_bytes call.                                 *)
(***************************************************************************)
VARIABLES
    pc,               \* position in classify_image_bytes
    vis,              \* VisualAgentOutput
    image_size,       \* (W, H) of the image bytes
    use_llm_arbiter,  \* parameter
    top_obj,          \* Optional: the selected object
    sz,               \* Optional: SizeAgentOutput
    combined,         \* the joined evidence text
    cat_scores,       \* Optional: category id -> keyword hits
    rules_choice,     \* Optional: RuleAgentOutput
    arb_env,          \* Optional: the environment the arbiter ran in
    arb,              \* Optional: the arbiter's RuleAgentOutput
    result            \* Optional: the returned dict

clsVars == <<pc, vis, image_size, use_llm_arbiter, top_obj, sz, combined, cat_scores,
             rules_choice, arb_env, arb, result>>

(***************************************************************************)
(* State of one analyze_image_bytes call.                                  *)
(***************************************************************************)
VARIABLES
    dpc,                  \* position in analyze_image_bytes
    enable_grid_fallback, \* parameter
    pil_size,             \* (W, H) of the normalized image
    session_id,           \* Optional: uuid of this call
    files,                \* files under static_dir: set of [path, image]
    image_caption,
    objects,
    bboxes,
    crops,
    idx,                  \* loop index of lines 144-164
    gy, gx, added, seen_captions,
    failed_call,          \* which call raised, "none" if none did
    det_result,           \* Optional: the returned dict
    analysis,             \* Optional: what the provider answered to the whole-image call
    provider_calls        \* the caption calls answered so far: set of [path, image, caption]

detVars == <<dpc, enable_grid_fallback, pil_size, session_id, files, image_caption, objects,
             bboxes, crops, idx, gy, gx, added, seen_captions, failed_call, det_result,
             analysis, provider_calls>>

(***************************************************************************)
(* State of one request to the analyze route (routes.py).                  *)
(***************************************************************************)
VARIABLES
    apc,          \* position in analyze
    upload,       \* the "image" part of the request: "missing", "empty" or "ok"
    objs,         \* result["objects"], annotated in place
    parent_idxs,  \* indices (from 1) of the objects flagged parent device
    ai,           \* number of objects the loop of lines 184-233 has dealt with
    classified,   \* indices (from 1) of the objects handed to classify_weee
    response      \* Optional: the HTTP status answered

anVars == <<apc, upload, objs, parent_idxs, ai, classified, response>>

(***************************************************************************)
(* The two IoU functions applied to a pair of boxes.                       *)
(***************************************************************************)
VARIABLES
    ipc,       \* "args", then "done" once both functions were applied
    box_a,     \* [x, y, w, h]
    box_b,
    iou_v,     \* Optional: vision._iou on (A,B), (B,A), (A,A)
    iou_r      \* Optional: routes._bbox_iou on (A,B), (B,A), (A,A)

iouVars == <<ipc, box_a, box_b, iou_v, iou_r>>

(***************************************************************************)
(* Concurrent analyze_image_bytes calls over one static directory.         *)
(***************************************************************************)
VARIABLES
    invs,      \* invocation -> its local state
    cfiles     \* the files under the shared static_dir: set of [path, image]

conVars == <<invs, cfiles>>

(***************************************************************************)
(* The sizes on the way from the uploaded bytes to size_agent.             *)
(***************************************************************************)
VARIABLES
    npc,       \* "idle", "start", "normalized", "detected", "sized"
    n_img,     \* (width, height) of the uploaded image
    n_pil,     \* Optional: size of pil_img after _resize_to_valid
    n_top,     \* Optional: the object picked among those the detector reported
    n_sz       \* Optional: what size_agent returned

sizVars == <<npc, n_img, n_pil, n_top, n_sz>>

(***************************************************************************)
(* One request to a messaging webhook (routes.py lines 274-562).           *)
(***************************************************************************)
VARIABLES
    hpc,       \* "idle", or the position of the handler
    hk_env,    \* the environment variables the handler reads
    hk_req,    \* the request
    hk_i,      \* Meta: number of messages of the payload gone through
    hk_log,    \* what the handler did to the outside world so far, in order
    hk_reply   \* Optional: the HTTP response, [status, body]

hookVars == <<hpc, hk_env, hk_req, hk_i, hk_log, hk_reply>>

\* what the actions of one flow leave alone
notClsVars == <<detVars, anVars, iouVars, conVars, sizVars, hookVars>>
notDetVars == <<clsVars, anVars, iouVars, conVars, sizVars, hookVars>>
notAnVars == <<clsVars, detVars, iouVars, conVars, sizVars, hookVars>>
notIouVars == <<clsVars, detVars, anVars, conVars, sizVars, hookVars>>
notConVars == <<clsVars, detVars, anVars, iouVars, sizVars, hookVars>>
notSizVars == <<clsVars, detVars, anVars, iouVars, conVars, hookVars>>
notHookVars == <<clsVars, detVars, anVars, iouVars, conVars, sizVars>>

ClsInit ==
    /\ pc = "select"
    /\ vis \in VisualAgentOutputs
    /\ image_size \in ImageSizes
    /\ use_llm_arbiter \in BOOLEAN
    /\ top_obj = None
    /\ sz = None
    /\ combined = <<>>
    /\ cat_scores = None
    /\ rules_choice = None
    /\ arb_env = None
    /\ arb = None
    /\ result = None

ResultConfidence(top) == IF top # None THEN Val(top).confidence ELSE 0

SizeDict(s) ==
    [image_w |-> s.img_size[1], image_h |-> s.img_size[2], object_bbox |-> s.object_bbox,
     size_ratio |-> s.size_ratio, size_bucket |-> s.size_bucket]

\* the dict of lines 226-245 carrying the default category next to the filter entry
FilteredResult_with_category(v, top, s, text) ==
    [session_id |-> v.session_id, original_url |-> v.original_url,
     image_caption |-> v.image_caption, top_object |-> top,
     agents |-> [visual |-> [objects |-> v.objects], size |-> SizeDict(s), rules |-> None],
     category |-> Some([id |-> 5, name |-> CategoryName(5)]),
     confidence |-> ResultConfidence(top),
     filtered |-> [reason |-> "non_eee", text |-> text]]

\* the dict returned at lines 226-245
FilteredResult(v, top, s, text) ==
    [session_id |-> v.session_id, original_url |-> v.original_url,
     image_caption |-> v.image_caption, top_object |-> top,
     agents |-> [visual |-> [objects |-> v.objects], size |-> SizeDict(s), rules |-> None],
     category |-> None,
     confidence |-> ResultConfidence(top),
     filtered |-> [reason |-> "non_eee", text |-> text]]

\* the dict returned at lines 264-288
ClassifiedResult(v, top, s, rules, final_choice) ==
    [session_id |-> v.session_id, original_url |-> v.original_url,
     image_caption |-> v.image_caption, top_object |-> top,
     agents |-> [visual |-> [objects |-> v.objects], size |-> SizeDict(s),
                 rules |-> Some([category_id |-> rules.category_id,
                                 category_name |-> rules.category_name,
                                 score |-> rules.score, evidence |-> rules.evidence])],
     category |-> Some([id |-> final_choice.category_id, name |-> final_choice.category_name]),
     confidence |-> ResultConfidence(top),
     explanation |-> final_choice.evidence]

\* lines 213-214
SelectAndSize ==
    /\ pc = "select"
    /\ top_obj' = _pick_best_object(vis.objects)
    /\ sz' = Some(size_agent(image_size, top_obj'))
    /\ pc' = "filter"
    /\ UNCHANGED <<vis, image_size, use_llm_arbiter, combined, cat_scores, rules_choice,
                   arb_env, arb, result>>
    /\ UNCHANGED notClsVars

\* lines 216-245
NonEeeFilter ==
    /\ pc = "filter"
    /\ combined' = CombinedText(vis.image_caption, top_obj)
    /\ cat_scores' = Some(CatScores(combined'))
    /\ IF _is_non_eee(combined', Val(cat_scores'))
       THEN /\ result' = Some(FilteredResult(vis, top_obj, Val(sz), combined'))
            /\ pc' = "done"
       ELSE /\ result' = result
            /\ pc' = "rules"
    /\ UNCHANGED <<vis, image_size, use_llm_arbiter, top_obj, sz, rules_choice, arb_env, arb>>
    /\ UNCHANGED notClsVars

\* lines 248-250
RuleAgent ==
    /\ pc = "rules"
    /\ rules_choice' = Some(rule_agent(vis.image_caption, top_obj, Val(sz).size_bucket))
    /\ pc' = IF use_llm_arbiter THEN "arbiter" ELSE "return"
    /\ UNCHANGED <<vis, image_size, use_llm_arbiter, top_obj, sz, combined, cat_scores,
                   arb_env, arb, result>>
    /\ UNCHANGED notClsVars

\* lines 251-262
Arbiter ==
    /\ pc = "arbiter"
    /\ \E env \in ArbiterEnvs :
          /\ arb_env' = Some(env)
          /\ arb' = _try_llm_arbiter(Val(rules_choice), CATEGORIES, env)
    /\ pc' = "return"
    /\ UNCHANGED <<vis, image_size, use_llm_arbiter, top_obj, sz, combined, cat_scores,
                   rules_choice, result>>
    /\ UNCHANGED notClsVars

\* lines 249, 261-288
Return ==
    /\ pc = "return"
    /\ LET final_choice == IF arb # None THEN Val(arb) ELSE Val(rules_choice)
       IN  result' = Some(ClassifiedResult(vis, top_obj, Val(sz), Val(rules_choice), final_choice))
    /\ pc' = "done"
    /\ UNCHANGED <<vis, image_size, use_llm_arbiter, top_obj, sz, combined, cat_scores,
                   rules_choice, arb_env, arb>>
    /\ UNCHANGED notClsVars


(***************************************************************************)
(* The object detector, app/services/vision.py.                            *)
(* An image is identified by the rectangle [x1, y1, x2, y2] of the         *)
(* normalized image it shows; a file path is <<dir, session, kind, n>>     *)
(* relative to static_dir and a URL is the path with "/static" in front.   *)
(***************************************************************************)
min_side == 50
max_side == 16000
grid_n == 3
max_extra == 10
min_desired == 4

_crop_regions_step(W, H, r) ==
    LET x2 == Max(0, r.x)
        y2 == Max(0, r.y)
        x3 == Min(W, r.x + r.w)
        y3 == Min(H, r.y + r.h)
    IN  IF x3 > x2 /\ y3 > y2 THEN << [x1 |-> x2, y1 |-> y2, x2 |-> x3, y2 |-> y3] >> ELSE <<>>

RECURSIVE _crop_regions(_, _, _)
_crop_regions(W, H, boxes) ==
    IF boxes = <<>> THEN <<>>
    ELSE _crop_regions_step(W, H, Head(boxes)) \o _crop_regions(W, H, Tail(boxes))

\* the union taken as twice the first area
_iou_union_of_first(boxA, boxB) ==
    LET inter_w == Max(0, Min(boxA[1] + boxA[3], boxB[1] + boxB[3]) - Max(boxA[1], boxB[1]))
        inter_h == Max(0, Min(boxA[2] + boxA[4], boxB[2] + boxB[4]) - Max(boxA[2], boxB[2]))
        inter_area == inter_w * inter_h
        union == boxA[3] * boxA[4] + boxA[3] * boxA[4] - inter_area
    IN  IF union <= 0 THEN [num |-> 0, den |-> 1] ELSE [num |-> inter_area, den |-> union]

\* boxes are <<x, y, w, h>>; the result is the float inter_area / union as [num, den]
_iou(boxA, boxB) ==
    LET Ax == boxA[1]  Ay == boxA[2]  Aw == boxA[3]  Ah == boxA[4]
        Bx == boxB[1]  By == boxB[2]  Bw == boxB[3]  Bh == boxB[4]
        A_x2 == Ax + Aw
        A_y2 == Ay + Ah
        B_x2 == Bx + Bw
        B_y2 == By + Bh
        inter_x1 == Max(Ax, Bx)
        inter_y1 == Max(Ay, By)
        inter_x2 == Min(A_x2, B_x2)
        inter_y2 == Min(A_y2, B_y2)
        inter_w == Max(0, inter_x2 - inter_x1)
        inter_h == Max(0, inter_y2 - inter_y1)
        inter_area == inter_w * inter_h
        areaA == Aw * Ah
        areaB == Bw * Bh
        union == areaA + areaB - inter_area
    IN  IF union <= 0 THEN [num |-> 0, den |-> 1] ELSE [num |-> inter_area, den |-> union]

\* a float [num, den] with den > 0 compared with 0.2, with 0.6 in the mutant
GreaterThanFifth_three_fifths(f) == 5 * f.num > 3 * f.den
GreaterThanFifth(f) == 5 * f.num > f.den

UploadFile(sid) == <<"uploads", sid, "original", 0>>
\* the crop files of all sessions in one directory
CropFile_unscoped(sid, i) == <<"crops", "all", "obj", i>>
CropFile(sid, i) == <<"crops", sid, "obj", i>>
ExtraFile(sid, k) == <<"crops", sid, "extra", k>>
StaticUrl(path) == <<"/static">> \o path
UrlToPath(url) == Tail(url)

\* the write left out
_save_image_bytes_not_written(fs, image, out_path) == fs

\* _save_image_bytes: the file at out_path now holds the image
_save_image_bytes(fs, image, out_path) ==
    {f \in fs : f.path # out_path} \cup {[path |-> out_path, image |-> image]}

\* lines 126-139: one provider detection becomes one object
DetectionName(det) ==
    LET name0 == det.name
        name1 == IF (det.name = None \/ det.confidence = None) /\ det.tags # <<>>
                 THEN (IF Truthy(name0) THEN name0 ELSE det.tags[1].name)
                 ELSE name0
    IN  IF Truthy(name1) THEN Val(name1) ELSE T_objeto

DetectionConfidence(det) ==
    LET conf1 == IF (det.name = None \/ det.confidence = None) /\ det.tags # <<>>
                 THEN (IF det.confidence # None THEN det.confidence ELSE det.tags[1].confidence)
                 ELSE det.confidence
    IN  IF conf1 # None THEN Val(conf1) ELSE 0

DetectionBBox(det) ==
    [x |-> det.bounding_box.x, y |-> det.bounding_box.y,
     w |-> det.bounding_box.width, h |-> det.bounding_box.height]

DetectionObject(det) ==
    [name |-> DetectionName(det), confidence |-> DetectionConfidence(det),
     bbox |-> DetectionBBox(det), crop_url |-> None, caption |-> None]

(***************************************************************************)
(* What the vision provider may answer.                                    *)
(***************************************************************************)
DetBoxes == { [x |-> 10, y |-> 10, width |-> 50, height |-> 50],
              [x |-> 100, y |-> 100, width |-> 80, height |-> 50],
              [x |-> 200, y |-> 10, width |-> 50, height |-> 50] }

DetKinds == { [name |-> Some(T_car), confidence |-> Some(9), tags |-> <<>>],
              [name |-> None, confidence |-> None,
               tags |-> << [name |-> Some(T_car), confidence |-> Some(8)] >>],
              [name |-> None, confidence |-> None, tags |-> <<>>] }

\* every kind at the first box, and the named kind at every box
Detections ==
    {[name |-> kb[1].name, confidence |-> kb[1].confidence, tags |-> kb[1].tags,
      bounding_box |-> kb[2]] :
        kb \in {c \in DetKinds \X DetBoxes :
                    c[1].name # None \/ c[2] = [x |-> 10, y |-> 10, width |-> 50, height |-> 50]}}

\* a detection whose box lies outside every image of PilSizes
OffImageDetection ==
    [name |-> Some(T_car), confidence |-> Some(9), tags |-> <<>>,
     bounding_box |-> [x |-> 200, y |-> 10, width |-> 50, height |-> 50]]

\* a caption with up to MaxDets detections, or no caption with none or with four that
\* yield no crop
PrimaryResponses ==
    [caption : {Some(T_street_with_cars)}, objects : SeqsUpTo(Detections, MaxDets)]
    \cup [caption : {None}, objects : {<<>>, [i \in 1..4 |-> OffImageDetection]}]

\* a caption call that does not fail answers with a caption or with none
CaptionResponses == {None, Some(T_a_car), Some(T_street_with_cars)}
\* ... and for a grid cell also with a caption of blanks only
CellCaptionResponses == CaptionResponses \cup {Some(<<" ">>)}
PilSizes == {<<149, 150>>, <<100, 100>>}

DetBlank ==
    /\ session_id = None
    /\ files = {}
    /\ image_caption = None
    /\ objects = <<>>
    /\ bboxes = <<>>
    /\ crops = <<>>
    /\ idx = 0
    /\ gy = 0
    /\ gx = 0
    /\ added = 0
    /\ seen_captions = {}
    /\ failed_call = "none"
    /\ det_result = None
    /\ analysis = None
    /\ provider_calls = {}

DetInit ==
    /\ dpc = "start"
    /\ enable_grid_fallback \in BOOLEAN
    /\ pil_size \in PilSizes
    /\ DetBlank

\* no analyze_image_bytes call is modelled
DetIdle ==
    /\ dpc = "idle"
    /\ enable_grid_fallback = FALSE
    /\ pil_size = <<100, 100>>
    /\ DetBlank

\* no classify_image_bytes call is modelled
ClsIdle ==
    /\ pc = "idle"
    /\ vis = [image_caption |-> None, objects |-> <<>>,
              original_url |-> <<"/static/uploads/", SessionId, "/original.jpg">>,
              session_id |-> SessionId]
    /\ image_size = <<100, 100>>
    /\ use_llm_arbiter = FALSE
    /\ top_obj = None
    /\ sz = None
    /\ combined = <<>>
    /\ cat_scores = None
    /\ rules_choice = None
    /\ arb_env = None
    /\ arb = None
    /\ result = None

\* classify_image_bytes is at line 212, inside visual_agent, waiting for analyze_image_bytes
ClsCalling ==
    /\ pc = "visual"
    /\ vis = [image_caption |-> None, objects |-> <<>>,
              original_url |-> <<"/static/uploads/", SessionId, "/original.jpg">>,
              session_id |-> SessionId]
    /\ image_size = <<100, 100>>
    /\ use_llm_arbiter = FALSE
    /\ top_obj = None
    /\ sz = None
    /\ combined = <<>>
    /\ cat_scores = None
    /\ rules_choice = None
    /\ arb_env = None
    /\ arb = None
    /\ result = None

\* lines 90-101 with Image.open raising on the bytes: the session directories exist, no file
DecodeFails ==
    /\ dpc = "start"
    /\ session_id' = Some("s1")
    /\ failed_call' = "decode"
    /\ dpc' = "raised"
    /\ UNCHANGED <<enable_grid_fallback, pil_size, files, image_caption, objects, bboxes, crops,
                   idx, gy, gx, added, seen_captions, det_result>>
    /\ UNCHANGED <<analysis, provider_calls>>
    /\ UNCHANGED notDetVars

\* lines 90-107: session directories, the normalized image saved as the "original"
OpenSession ==
    /\ dpc = "start"
    /\ session_id' = Some("s1")
    /\ files' = _save_image_bytes(files, [x1 |-> 0, y1 |-> 0, x2 |-> pil_size[1], y2 |-> pil_size[2]],
                                  UploadFile("s1"))
    /\ dpc' = "analyze"
    /\ UNCHANGED <<enable_grid_fallback, pil_size, image_caption, objects, bboxes, crops, idx,
                   gy, gx, added, seen_captions, failed_call, det_result>>
    /\ UNCHANGED <<analysis, provider_calls>>
    /\ UNCHANGED notDetVars

\* the failure of the whole-image call taken as an answer without caption and objects
PrimaryAnalyzeFails_swallowed ==
    /\ dpc = "analyze"
    /\ failed_call' = "primary"
    /\ dpc' = "crops"
    /\ idx' = 0
    /\ UNCHANGED <<enable_grid_fallback, pil_size, session_id, files, image_caption, objects,
                   bboxes, crops, gy, gx, added, seen_captions, det_result>>
    /\ UNCHANGED <<analysis, provider_calls>>
    /\ UNCHANGED notDetVars

\* lines 110-113 raising: nothing catches it
PrimaryAnalyzeFails ==
    /\ dpc = "analyze"
    /\ failed_call' = "primary"
    /\ dpc' = "raised"
    /\ UNCHANGED <<enable_grid_fallback, pil_size, session_id, files, image_caption, objects,
                   bboxes, crops, idx, gy, gx, added, seen_captions, det_result>>
    /\ UNCHANGED <<analysis, provider_calls>>
    /\ UNCHANGED notDetVars

\* lines 110-142
PrimaryAnalyze ==
    /\ dpc = "analyze"
    /\ \E answer \in PrimaryResponses :
          /\ analysis' = Some(answer)
          /\ image_caption' = answer.caption
          /\ objects' = [i \in 1..Len(answer.objects) |-> DetectionObject(answer.objects[i])]
          /\ bboxes' = [i \in 1..Len(answer.objects) |-> DetectionBBox(answer.objects[i])]
    /\ crops' = _crop_regions(pil_size[1], pil_size[2], bboxes')
    /\ idx' = 0
    /\ dpc' = "crops"
    /\ UNCHANGED <<enable_grid_fallback, pil_size, session_id, files, gy, gx, added,
                   seen_captions, failed_call, det_result, provider_calls>>
    /\ UNCHANGED notDetVars

\* lines 144-147: no crop left for this index
CropSkip ==
    /\ dpc = "crops"
    /\ idx < Len(objects)
    /\ idx >= Len(crops)
    /\ idx' = idx + 1
    /\ UNCHANGED <<dpc, enable_grid_fallback, pil_size, session_id, files, image_caption, objects,
                   bboxes, crops, gy, gx, added, seen_captions, failed_call, det_result>>
    /\ UNCHANGED <<analysis, provider_calls>>
    /\ UNCHANGED notDetVars

\* lines 149-164
CropCaption ==
    /\ dpc = "crops"
    /\ idx < Len(objects)
    /\ idx < Len(crops)
    /\ files' = _save_image_bytes(files, crops[idx + 1], CropFile(Val(session_id), idx))
    /\ \E obj_caption \in CaptionResponses :
          /\ provider_calls' = provider_calls \cup
                 {[path |-> CropFile(Val(session_id), idx), image |-> crops[idx + 1],
                   caption |-> obj_caption]}
          /\ objects' = [objects EXCEPT ![idx + 1] =
                         [@ EXCEPT !.crop_url = Some(StaticUrl(CropFile(Val(session_id), idx))),
                                   !.caption = obj_caption]]
    /\ idx' = idx + 1
    /\ UNCHANGED <<dpc, enable_grid_fallback, pil_size, session_id, image_caption,
                   bboxes, crops, gy, gx, added, seen_captions, failed_call, det_result,
                   analysis>>
    /\ UNCHANGED notDetVars

\* lines 149-160 with the caption call raising: the crop file is written, nothing catches it
CropCaptionFails ==
    /\ dpc = "crops"
    /\ idx < Len(objects)
    /\ idx < Len(crops)
    /\ files' = _save_image_bytes(files, crops[idx + 1], CropFile(Val(session_id), idx))
    /\ failed_call' = "crop"
    /\ dpc' = "raised"
    /\ UNCHANGED <<enable_grid_fallback, pil_size, session_id, image_caption, objects,
                   bboxes, crops, idx, gy, gx, added, seen_captions, det_result>>
    /\ UNCHANGED <<analysis, provider_calls>>
    /\ UNCHANGED notDetVars

\* the fallback entered whatever the number of objects
CropsDone_any_count ==
    /\ dpc = "crops"
    /\ idx = Len(objects)
    /\ IF enable_grid_fallback
       THEN /\ dpc' = "grid"
            /\ seen_captions' = {Val(objects[i].caption) : i \in {j \in 1..Len(objects) : Truthy(objects[j].caption)}}
       ELSE /\ dpc' = "return"
            /\ seen_captions' = seen_captions
    /\ added' = 0
    /\ gy' = 0
    /\ gx' = 0
    /\ UNCHANGED <<enable_grid_fallback, pil_size, session_id, files, image_caption, objects,
                   bboxes, crops, idx, failed_call, det_result>>
    /\ UNCHANGED <<analysis, provider_calls>>
    /\ UNCHANGED notDetVars

\* lines 166-175
CropsDone ==
    /\ dpc = "crops"
    /\ idx = Len(objects)
    /\ IF enable_grid_fallback /\ Len(objects) < min_desired
       THEN /\ dpc' = "grid"
            /\ seen_captions' = {Val(objects[i].caption) : i \in {j \in 1..Len(objects) : Truthy(objects[j].caption)}}
       ELSE /\ dpc' = "return"
            /\ seen_captions' = seen_captions
    /\ added' = 0
    /\ gy' = 0
    /\ gx' = 0
    /\ UNCHANGED <<enable_grid_fallback, pil_size, session_id, files, image_caption, objects,
                   bboxes, crops, idx, failed_call, det_result>>
    /\ UNCHANGED <<analysis, provider_calls>>
    /\ UNCHANGED notDetVars

\* the grid cell (gx, gy) as (x, y, w, h), lines 174-184
CellBox(W, H, cx, cy) ==
    LET cell_w == W \div grid_n
        cell_h == H \div grid_n
        cell_x == cx * cell_w
        cell_y == cy * cell_h
        cell_w_eff == IF cx < grid_n - 1 THEN cell_w ELSE W - cell_x
        cell_h_eff == IF cy < grid_n - 1 THEN cell_h ELSE H - cell_y
    IN  <<cell_x, cell_y, cell_w_eff, cell_h_eff>>

CellTooSmall(cell_box) == cell_box[3] < min_side \/ cell_box[4] < min_side

\* lines 192-196
CellOverlaps(cell_box, boxes) ==
    \E i \in 1..Len(boxes) :
        GreaterThanFifth(_iou(cell_box, <<boxes[i].x, boxes[i].y, boxes[i].w, boxes[i].h>>))

\* the two loops of lines 177-180 and 227-228 move on, with `n` additions so far
GridAdvance(n) ==
    IF n >= max_extra \/ (gx = grid_n - 1 /\ gy = grid_n - 1)
    THEN dpc' = "return" /\ gx' = gx /\ gy' = gy
    ELSE /\ dpc' = "grid"
         /\ gx' = (gx + 1) % grid_n
         /\ gy' = IF gx = grid_n - 1 THEN gy + 1 ELSE gy

\* lines 181-198: a cell that is too small or overlaps a known box is passed over
GridCellSkipped ==
    /\ dpc = "grid"
    /\ LET cell_box == CellBox(pil_size[1], pil_size[2], gx, gy)
       IN  CellTooSmall(cell_box) \/ CellOverlaps(cell_box, bboxes)
    /\ GridAdvance(added)
    /\ UNCHANGED <<enable_grid_fallback, pil_size, session_id, files, image_caption, objects,
                   bboxes, crops, idx, added, seen_captions, failed_call, det_result>>
    /\ UNCHANGED <<analysis, provider_calls>>
    /\ UNCHANGED notDetVars

\* lines 200-226
GridCaption ==
    /\ dpc = "grid"
    /\ LET cell_box == CellBox(pil_size[1], pil_size[2], gx, gy)
           extra_crop == [x1 |-> cell_box[1], y1 |-> cell_box[2],
                          x2 |-> cell_box[1] + cell_box[3], y2 |-> cell_box[2] + cell_box[4]]
           extra_file == ExtraFile(Val(session_id), added)
           extra_bbox == [x |-> cell_box[1], y |-> cell_box[2], w |-> cell_box[3], h |-> cell_box[4]]
       IN  /\ ~CellTooSmall(cell_box)
           /\ ~CellOverlaps(cell_box, bboxes)
           /\ files' = _save_image_bytes(files, extra_crop, extra_file)
           /\ \E extra_caption \in CellCaptionResponses :
              /\ provider_calls' = provider_calls \cup
                     {[path |-> extra_file, image |-> extra_crop, caption |-> extra_caption]}
              /\ IF \/ ~Truthy(extra_caption)
                    \/ Strip(Val(extra_caption)) = <<>>
                    \/ Val(extra_caption) \in seen_captions
                 THEN /\ GridAdvance(added)
                      /\ UNCHANGED <<objects, bboxes, seen_captions, added>>
                 ELSE /\ objects' = Append(objects,
                                           [name |-> Val(extra_caption), confidence |-> 0,
                                            bbox |-> extra_bbox,
                                            crop_url |-> Some(StaticUrl(extra_file)),
                                            caption |-> extra_caption])
                      /\ bboxes' = Append(bboxes, extra_bbox)
                      /\ seen_captions' = seen_captions \cup {Val(extra_caption)}
                      /\ added' = added + 1
                      /\ GridAdvance(added + 1)
    /\ UNCHANGED <<enable_grid_fallback, pil_size, session_id, image_caption, crops, idx,
                   failed_call, det_result, analysis>>
    /\ UNCHANGED notDetVars

\* lines 200-209 with the caption call raising: the cell file is written, nothing catches it
GridCaptionFails ==
    /\ dpc = "grid"
    /\ LET cell_box == CellBox(pil_size[1], pil_size[2], gx, gy)
           extra_crop == [x1 |-> cell_box[1], y1 |-> cell_box[2],
                          x2 |-> cell_box[1] + cell_box[3], y2 |-> cell_box[2] + cell_box[4]]
       IN  /\ ~CellTooSmall(cell_box)
           /\ ~CellOverlaps(cell_box, bboxes)
           /\ files' = _save_image_bytes(files, extra_crop, ExtraFile(Val(session_id), added))
    /\ failed_call' = "grid"
    /\ dpc' = "raised"
    /\ UNCHANGED <<enable_grid_fallback, pil_size, session_id, image_caption, objects, bboxes,
                   crops, idx, gy, gx, added, seen_captions, det_result>>
    /\ UNCHANGED <<analysis, provider_calls>>
    /\ UNCHANGED notDetVars

\* lines 230-235
DetectorReturn ==
    /\ dpc = "return"
    /\ det_result' = Some([session_id |-> Val(session_id),
                           original_url |-> StaticUrl(UploadFile(Val(session_id))),
                           image_caption |-> image_caption,
                           objects |-> objects])
    /\ dpc' = "returned"
    /\ UNCHANGED <<enable_grid_fallback, pil_size, session_id, files, image_caption, objects,
                   bboxes, crops, idx, gy, gx, added, seen_captions, failed_call>>
    /\ UNCHANGED <<analysis, provider_calls>>
    /\ UNCHANGED notDetVars

\* weee_classifier.py lines 88-96 and 212: analyze_image_bytes returned inside visual_agent
VisualAgentReturns ==
    /\ pc = "visual"
    /\ dpc = "returned"
    /\ LET vres == Val(det_result)
       IN  vis' = [image_caption |-> vres.image_caption, objects |-> vres.objects,
                   original_url |-> vres.original_url, session_id |-> vres.session_id]
    /\ pc' = "select"
    /\ UNCHANGED <<image_size, use_llm_arbiter, top_obj, sz, combined, cat_scores, rules_choice,
                   arb_env, arb, result>>
    /\ UNCHANGED notClsVars

\* weee_classifier.py lines 88-90 and 212: analyze_image_bytes raised, nothing catches it
VisualAgentRaises ==
    /\ pc = "visual"
    /\ dpc = "raised"
    /\ pc' = "raised"
    /\ UNCHANGED <<vis, image_size, use_llm_arbiter, top_obj, sz, combined, cat_scores,
                   rules_choice, arb_env, arb, result>>
    /\ UNCHANGED notClsVars

(***************************************************************************)
(* routes.py: the analyze route, lines 155-238.                            *)
(***************************************************************************)
_PARENT_DEVICE_KEYWORDS ==
    << <<"l","a","p","t","o","p">>, <<"n","o","t","e","b","o","o","k">>,
       <<"c","o","m","p","u","t","a","d","o","r">>, <<"p","c">>, <<"d","e","s","k","t","o","p">>,
       <<"m","o","n","i","t","o","r">>, <<"t","e","l","e","v","i","s","o","r">>, <<"t","v">>,
       <<"t","a","b","l","e","t">>, <<"t","e","l","e","f","o","n","e">>, <<"c","e","l","u","l","a","r">>,
       <<"s","m","a","r","t","p","h","o","n","e">>, <<"i","m","p","r","e","s","s","o","r","a">>,
       <<"p","r","i","n","t","e","r">>, <<"r","o","t","e","a","d","o","r">>, <<"r","o","u","t","e","r">>,
       <<"g","e","l","a","d","e","i","r","a">>, <<"r","e","f","r","i","g","e","r","a","d","o","r">>,
       <<"f","r","i","g","o","r","í","f","i","c","o">>, <<"f","r","e","e","z","e","r">>,
       <<"f","o","r","n","o">>, <<"m","i","c","r","o","-","o","n","d","a","s">>,
       <<"l","a","v","a","-","l","o","u","ç","a","s">>,
       <<"m","á","q","u","i","n","a"," ","d","e"," ","l","a","v","a","r">>,
       <<"s","e","c","a","d","o","r","a">>, <<"a","r","-","c","o","n","d","i","c","i","o","n","a","d","o">>,
       <<"b","o","m","b","a"," ","d","e"," ","c","a","l","o","r">> >>

_SUBPART_KEYWORDS ==
    << <<"k","e","y","b","o","a","r","d">>, <<"t","e","c","l","a","d","o">>,
       <<"t","r","a","c","k","p","a","d">>, <<"t","o","u","c","h","p","a","d">>,
       <<"s","c","r","e","e","n">>, <<"d","i","s","p","l","a","y">>, <<"p","a","n","e","l">>,
       <<"p","a","i","n","e","l">>, <<"b","e","z","e","l">>, <<"s","t","a","n","d">>,
       <<"m","o","u","s","e">>, <<"s","p","e","a","k","e","r">>,
       <<"a","l","t","o","-","f","a","l","a","n","t","e">>,
       <<"a","l","t","o"," ","f","a","l","a","n","t","e">>, <<"c","a","b","l","e">>,
       <<"c","a","b","l","e","s">>, <<"w","i","r","e">>, <<"f","i","o">>, <<"c","a","b","o","s">>,
       <<"c","a","b","o">> >>

_NON_EEE_KEYWORDS ==
    << <<"p","e","s","s","o","a">>, <<"p","e","r","s","o","n">>, <<"h","o","m","e","m">>,
       <<"m","u","l","h","e","r">>, <<"d","o","g">>, <<"c","a","c","h","o","r","r","o">>, <<"c","a","t">>,
       <<"g","a","t","o">>, <<"a","n","i","m","a","l">>, <<"á","r","v","o","r","e">>, <<"t","r","e","e">>,
       <<"p","l","a","n","t">>, <<"p","l","a","n","t","a">>, <<"c","a","r">>, <<"c","a","r","r","o">>,
       <<"b","i","k","e">>, <<"b","i","c","y","c","l","e">>, <<"f","o","o","d">>,
       <<"c","o","m","i","d","a">>, <<"h","o","u","s","e">>, <<"c","a","s","a">>,
       <<"b","u","i","l","d","i","n","g">>, <<"p","r","é","d","i","o">>, <<"r","u","a">>,
       <<"s","t","r","e","e","t">> >>

T_laptop == <<"l","a","p","t","o","p">>
T_keyboard == <<"k","e","y","b","o","a","r","d">>
T_lamp == <<"l","a","m","p">>
T_tv_stand == <<"t","v"," ","s","t","a","n","d">>
T_person_laptop == <<"a"," ","p","e","r","s","o","n"," ","u","s","i","n","g"," ","a"," ","l","a","p","t","o","p">>
T_laptop_keyboard == <<"a"," ","l","a","p","t","o","p"," ","k","e","y","b","o","a","r","d">>
T_cat_keyboard == <<"a"," ","c","a","t"," ","o","n"," ","a"," ","k","e","y","b","o","a","r","d">>
T_None == <<"N","o","n","e">>
L_ignorado_nao_eee == <<"I","g","n","o","r","a","d","o"," ","(","n","ã","o"," ","E","E","E",")">>
L_ignorado_parte_de == <<"I","g","n","o","r","a","d","o"," ","(","p","a","r","t","e"," ","d","e"," ">>

\* any(w in t for w in words), t the normalized text (routes._norm is weee_classifier._norm
\* on a str)
_hit(text, words) ==
    LET t == _norm(text)
    IN  \E i \in 1..Len(words) : Contains(words[i], t)

\* the intersection sides not floored at 0
_bbox_iou_no_floor(a, b) ==
    LET inter_w == Min(a.x + a.w, b.x + b.w) - Max(a.x, b.x)
        inter_h == Min(a.y + a.h, b.y + b.h) - Max(a.y, b.y)
        inter_area == inter_w * inter_h
        union == a.w * a.h + b.w * b.h - inter_area
    IN  IF union > 0 THEN [num |-> inter_area, den |-> union] ELSE [num |-> 0, den |-> 1]

\* the float inter_area / union as [num, den], 0.0 as [0, 1]
_bbox_iou(a, b) ==
    LET Ax == a.x  Ay == a.y  Aw == a.w  Ah == a.h
        Bx == b.x  By == b.y  Bw == b.w  Bh == b.h
        A_x2 == Ax + Aw
        A_y2 == Ay + Ah
        B_x2 == Bx + Bw
        B_y2 == By + Bh
        inter_x1 == Max(Ax, Bx)
        inter_y1 == Max(Ay, By)
        inter_x2 == Min(A_x2, B_x2)
        inter_y2 == Min(A_y2, B_y2)
        inter_w == Max(0, inter_x2 - inter_x1)
        inter_h == Max(0, inter_y2 - inter_y1)
        inter_area == inter_w * inter_h
        areaA == Aw * Ah
        areaB == Bw * Bh
        union == areaA + areaB - inter_area
    IN  IF union > 0 THEN [num |-> inter_area, den |-> union] ELSE [num |-> 0, den |-> 1]

\* a float [num, den] with den > 0 compared with 0.2 (line 199), strictly in the mutant
AtLeastFifth_strict(f) == 5 * f.num > f.den
AtLeastFifth(f) == 5 * f.num >= f.den

\* f"{o.get('name','')} {o.get('caption','')}": analyze_image_bytes sets "caption" together
\* with "crop_url", to None when the provider gave no caption
LabelSource(o) ==
    o.name \o <<" ">> \o
        (IF o.crop_url = None THEN <<>> ELSE IF o.caption = None THEN T_None ELSE Val(o.caption))

\* lines 174-177 for one object, and the three fields of lines 185-187
Annotate(o) ==
    LET label == _norm(LabelSource(o))
    IN  [name |-> o.name, caption |-> o.caption, bbox |-> o.bbox, crop_url |-> o.crop_url,
         crop_exists |-> o.crop_exists,
         _label_text |-> label,
         _is_parent |-> _hit(label, _PARENT_DEVICE_KEYWORDS),
         _is_subpart |-> _hit(label, _SUBPART_KEYWORDS),
         _is_non_eee |-> _hit(label, _NON_EEE_KEYWORDS),
         weee_category_id |-> None, weee_category_name |-> None, weee_category |-> None]

\* line 180
RECURSIVE ParentIdxs(_, _)
ParentIdxs(os, i) ==
    IF i > Len(os) THEN <<>>
    ELSE (IF os[i]._is_parent THEN <<i>> ELSE <<>>) \o ParentIdxs(os, i + 1)

\* line 190, without the parent test in the mutant
IsNonEeeIgnored_any(o) == o._is_non_eee
IsNonEeeIgnored(o) == o._is_non_eee /\ ~o._is_parent

\* lines 195-201: the first parent other than i whose box overlaps that of i, 0 if none
SubpartOf(os, pidx, i) ==
    IF os[i]._is_subpart /\ pidx # <<>>
    THEN LET c == {k \in 1..Len(pidx) :
                      pidx[k] # i /\ AtLeastFifth(_bbox_iou(os[i].bbox, os[pidx[k]].bbox))}
         IN  IF c = {} THEN 0 ELSE pidx[CHOOSE k \in c : \A m \in c : k <= m]
    ELSE 0

PartOfLabel(parent) ==
    L_ignorado_parte_de \o parent.name \o <<")">>

\* line 231: f"{cid} - {cname}"
CategoryLabel(cid, cname) == Str1(cid) \o <<" ", "-", " ">> \o cname

BoxA == [x |-> 0, y |-> 0, w |-> 10, h |-> 10]
BoxB == [x |-> 0, y |-> 0, w |-> 10, h |-> 2]
BoxC == [x |-> 0, y |-> 0, w |-> 10, h |-> 1]

AnObject(name, caption, bbox, k, exists) ==
    [name |-> name, caption |-> caption, bbox |-> bbox,
     crop_url |-> IF k >= 0 THEN Some(StaticUrl(CropFile(SessionId, k))) ELSE None,
     crop_exists |-> exists]

\* the objects analyze_image_bytes may hand to the route; BoxB meets BoxA with IoU 0.2,
\* BoxC with 0.1
AnalyzedObjects ==
    { AnObject(T_laptop, None, BoxA, 0, TRUE),
      AnObject(T_laptop, Some(T_person_laptop), BoxA, 0, TRUE),
      AnObject(T_keyboard, None, BoxB, 1, TRUE),
      AnObject(T_keyboard, None, BoxC, 1, TRUE),
      AnObject(T_keyboard, Some(T_cat_keyboard), BoxB, 1, TRUE),
      AnObject(T_laptop, Some(T_laptop_keyboard), BoxA, 0, TRUE),
      AnObject(T_keyboard, Some(T_laptop_keyboard), BoxB, 1, TRUE),
      AnObject(T_tv_stand, None, BoxB, 2, TRUE),
      AnObject(T_car, None, BoxC, 3, TRUE),
      AnObject(T_lamp, None, BoxC, 0 - 1, FALSE),
      AnObject(T_lamp, None, BoxC, 4, FALSE) }

\* what classify_weee may return: a filtered result or one with a category
ClassifyOutcomes ==
    {[category |-> None, filtered |-> TRUE]}
    \cup {[category |-> Some([id |-> c, name |-> CategoryName(c)]), filtered |-> FALSE] : c \in {1, 5}}

AnBlank ==
    /\ objs = <<>>
    /\ parent_idxs = <<>>
    /\ ai = 0
    /\ classified = {}
    /\ response = None

AnInit ==
    /\ apc = "request"
    /\ upload \in {"missing", "empty", "ok"}
    /\ AnBlank

\* no request to the analyze route is modelled
AnIdle ==
    /\ apc = "idle"
    /\ upload = "ok"
    /\ AnBlank

\* lines 156-160
AnRejectRequest ==
    /\ apc = "request"
    /\ upload # "ok"
    /\ response' = Some(400)
    /\ apc' = "done"
    /\ UNCHANGED <<upload, objs, parent_idxs, ai, classified>>
    /\ UNCHANGED notAnVars

\* lines 164-168 raising (build_client or analyze_image_bytes), caught at lines 236-238
AnAnalyzeFails ==
    /\ apc = "request"
    /\ upload = "ok"
    /\ response' = Some(500)
    /\ apc' = "done"
    /\ UNCHANGED <<upload, objs, parent_idxs, ai, classified>>
    /\ UNCHANGED notAnVars

\* lines 162-180
AnPreprocess ==
    /\ apc = "request"
    /\ upload = "ok"
    /\ \E found \in SeqsUpTo(AnalyzedObjects, MaxAnObjs) :
          objs' = [i \in 1..Len(found) |-> Annotate(found[i])]
    /\ parent_idxs' = ParentIdxs(objs', 1)
    /\ ai' = 0
    /\ apc' = "loop"
    /\ UNCHANGED <<upload, classified, response>>
    /\ UNCHANGED notAnVars

\* lines 184-192
AnIgnoreNonEee ==
    /\ apc = "loop"
    /\ ai < Len(objs)
    /\ IsNonEeeIgnored(objs[ai + 1])
    /\ objs' = [objs EXCEPT ![ai + 1].weee_category = Some(L_ignorado_nao_eee)]
    /\ ai' = ai + 1
    /\ UNCHANGED <<apc, upload, parent_idxs, classified, response>>
    /\ UNCHANGED notAnVars

\* lines 184-203
AnIgnoreSubpart ==
    /\ apc = "loop"
    /\ ai < Len(objs)
    /\ ~IsNonEeeIgnored(objs[ai + 1])
    /\ SubpartOf(objs, parent_idxs, ai + 1) # 0
    /\ objs' = [objs EXCEPT ![ai + 1].weee_category =
                    Some(PartOfLabel(objs[SubpartOf(objs, parent_idxs, ai + 1)]))]
    /\ ai' = ai + 1
    /\ UNCHANGED <<apc, upload, parent_idxs, classified, response>>
    /\ UNCHANGED notAnVars

\* the object reaches line 205
ReachesCrop(os, pidx, i) == ~IsNonEeeIgnored(os[i]) /\ SubpartOf(os, pidx, i) = 0

\* lines 184-207: no crop_url
AnSkipNoCrop ==
    /\ apc = "loop"
    /\ ai < Len(objs)
    /\ ReachesCrop(objs, parent_idxs, ai + 1)
    /\ objs[ai + 1].crop_url = None
    /\ ai' = ai + 1
    /\ UNCHANGED <<apc, upload, objs, parent_idxs, classified, response>>
    /\ UNCHANGED notAnVars

\* lines 184-215: the crop file is not there
AnSkipMissingCrop ==
    /\ apc = "loop"
    /\ ai < Len(objs)
    /\ ReachesCrop(objs, parent_idxs, ai + 1)
    /\ objs[ai + 1].crop_url # None
    /\ ~objs[ai + 1].crop_exists
    /\ ai' = ai + 1
    /\ UNCHANGED <<apc, upload, objs, parent_idxs, classified, response>>
    /\ UNCHANGED notAnVars

\* lines 184-231: classify_weee returns
AnClassify ==
    /\ apc = "loop"
    /\ ai < Len(objs)
    /\ ReachesCrop(objs, parent_idxs, ai + 1)
    /\ objs[ai + 1].crop_url # None
    /\ objs[ai + 1].crop_exists
    /\ classified' = classified \cup {ai + 1}
    /\ \E cls \in ClassifyOutcomes :
          IF cls.category = None /\ cls.filtered
          THEN objs' = [objs EXCEPT ![ai + 1].weee_category = Some(L_ignorado_nao_eee)]
          ELSE LET cid == Val(cls.category).id
                   cname == Val(cls.category).name
               IN  objs' = [objs EXCEPT ![ai + 1].weee_category_id = Some(cid),
                                        ![ai + 1].weee_category_name = Some(cname),
                                        ![ai + 1].weee_category = Some(CategoryLabel(cid, cname))]
    /\ ai' = ai + 1
    /\ UNCHANGED <<apc, upload, parent_idxs, response>>
    /\ UNCHANGED notAnVars

\* lines 184-233: classify_weee raises, the exception is logged
AnClassifyRaises ==
    /\ apc = "loop"
    /\ ai < Len(objs)
    /\ ReachesCrop(objs, parent_idxs, ai + 1)
    /\ objs[ai + 1].crop_url # None
    /\ objs[ai + 1].crop_exists
    /\ classified' = classified \cup {ai + 1}
    /\ ai' = ai + 1
    /\ UNCHANGED <<apc, upload, objs, parent_idxs, response>>
    /\ UNCHANGED notAnVars

\* line 235
AnRender ==
    /\ apc = "loop"
    /\ ai = Len(objs)
    /\ response' = Some(200)
    /\ apc' = "done"
    /\ UNCHANGED <<upload, objs, parent_idxs, ai, classified>>
    /\ UNCHANGED notAnVars

(***************************************************************************)
(* vision._iou and routes._bbox_iou on arbitrary boxes.                    *)
(***************************************************************************)
IouBoxes == [x : 0..MaxCoord, y : 0..MaxCoord, w : 0..MaxSide, h : 0..MaxSide]

\* the tuple (x, y, w, h) vision._iou takes
AsTuple(b) == <<b.x, b.y, b.w, b.h>>

IouInit ==
    /\ ipc = "args"
    /\ box_a \in IouBoxes
    /\ box_b \in IouBoxes
    /\ iou_v = None
    /\ iou_r = None

\* no IoU call is modelled
IouIdle ==
    /\ ipc = "idle"
    /\ box_a = [x |-> 0, y |-> 0, w |-> 0, h |-> 0]
    /\ box_b = [x |-> 0, y |-> 0, w |-> 0, h |-> 0]
    /\ iou_v = None
    /\ iou_r = None

\* vision.py lines 59-80
ApplyIou ==
    /\ ipc = "args"
    /\ iou_v = None
    /\ iou_v' = Some([ab |-> _iou(AsTuple(box_a), AsTuple(box_b)),
                      ba |-> _iou(AsTuple(box_b), AsTuple(box_a)),
                      aa |-> _iou(AsTuple(box_a), AsTuple(box_a))])
    /\ ipc' = IF iou_r # None THEN "done" ELSE "args"
    /\ UNCHANGED <<box_a, box_b, iou_r>>
    /\ UNCHANGED notIouVars

\* routes.py lines 48-63
ApplyBboxIou ==
    /\ ipc = "args"
    /\ iou_r = None
    /\ iou_r' = Some([ab |-> _bbox_iou(box_a, box_b),
                      ba |-> _bbox_iou(box_b, box_a),
                      aa |-> _bbox_iou(box_a, box_a)])
    /\ ipc' = IF iou_v # None THEN "done" ELSE "args"
    /\ UNCHANGED <<box_a, box_b, iou_v>>
    /\ UNCHANGED notIouVars

(***************************************************************************)
(* Several analyze_image_bytes calls interleaved, one step per file        *)
(* written: between two writes a call only touches its own locals.         *)
(***************************************************************************)
Invocations == 1..MaxInvocations

\* the values uuid4().hex may give (line 94); two calls never get the same one
SessionIds == {<<"u1", "u2", "u3", "u4">>[i] : i \in Invocations}

\* every call gets an image of this size (one grid cell of at least min_side), with its own
\* content
ConSize == <<149, 149>>
ConImage(p, rect) == [upload |-> p, rect |-> rect]

\* the boxes the provider reports to every call: one outside the image, one inside
ConBoxes ==
    << [x |-> 200, y |-> 10, w |-> 50, h |-> 50], [x |-> 10, y |-> 10, w |-> 50, h |-> 50] >>

ConBlank(grid) ==
    [pc |-> "start", enable_grid_fallback |-> grid, session_id |-> None, bboxes |-> <<>>,
     crops |-> <<>>, detected |-> 0, idx |-> 0, cell |-> 0, added |-> 0, crop_urls |-> <<>>,
     wrote |-> {}, result |-> None]

ConInit ==
    /\ invs \in [Invocations -> {ConBlank(g) : g \in BOOLEAN}]
    /\ cfiles = {}

\* no concurrent calls are modelled
ConIdle ==
    /\ invs = <<>>
    /\ cfiles = {}

\* _save_image_bytes by invocation p: the shared file, and p's record of what it wrote
ConSaved(l, p, rect, out_path) ==
    [l EXCEPT !.wrote = _save_image_bytes(l.wrote, ConImage(p, rect), out_path)]

\* lines 177-198: the first cell from scan position k on that is large enough and overlaps
\* no known box, grid_n * grid_n if there is none
RECURSIVE NextCell(_, _)
NextCell(boxes, k) ==
    IF k >= grid_n * grid_n THEN grid_n * grid_n
    ELSE LET cell_box == CellBox(ConSize[1], ConSize[2], k % grid_n, k \div grid_n)
         IN  IF CellTooSmall(cell_box) \/ CellOverlaps(cell_box, boxes)
             THEN NextCell(boxes, k + 1)
             ELSE k

\* lines 90-107
ConOpenSession(p) ==
    /\ invs[p].pc = "start"
    /\ \E sid \in SessionIds \ {Val(invs[q].session_id) : q \in {r \in Invocations : invs[r].session_id # None}} :
          /\ cfiles' = _save_image_bytes(cfiles, ConImage(p, [x1 |-> 0, y1 |-> 0, x2 |-> ConSize[1], y2 |-> ConSize[2]]),
                                         UploadFile(sid))
          /\ invs' = [invs EXCEPT ![p] =
                         ConSaved([@ EXCEPT !.session_id = Some(sid), !.pc = "analyze"], p,
                                  [x1 |-> 0, y1 |-> 0, x2 |-> ConSize[1], y2 |-> ConSize[2]],
                                  UploadFile(sid))]
    /\ UNCHANGED notConVars

\* lines 110-113 raising
ConPrimaryAnalyzeFails(p) ==
    /\ invs[p].pc = "analyze"
    /\ invs' = [invs EXCEPT ![p].pc = "raised"]
    /\ UNCHANGED cfiles
    /\ UNCHANGED notConVars

\* lines 110-142
ConPrimaryAnalyze(p) ==
    /\ invs[p].pc = "analyze"
    /\ invs' = [invs EXCEPT ![p] =
                    [@ EXCEPT !.bboxes = ConBoxes,
                              !.crops = _crop_regions(ConSize[1], ConSize[2], ConBoxes),
                              !.detected = Len(ConBoxes),
                              !.crop_urls = [i \in 1..Len(ConBoxes) |-> None],
                              !.idx = 0,
                              !.pc = "crops"]]
    /\ UNCHANGED cfiles
    /\ UNCHANGED notConVars

\* lines 144-164 for the next index that has a crop; the caption call answers or raises
ConCropCaption(p) ==
    LET l == invs[p]
        crop_file == CropFile(Val(l.session_id), l.idx)
    IN  /\ l.pc = "crops"
        /\ l.idx < l.detected
        /\ l.idx < Len(l.crops)
        /\ cfiles' = _save_image_bytes(cfiles, ConImage(p, l.crops[l.idx + 1]), crop_file)
        /\ \E answered \in BOOLEAN :
              invs' = [invs EXCEPT ![p] =
                          IF answered
                          THEN [ConSaved(l, p, l.crops[l.idx + 1], crop_file)
                                   EXCEPT !.crop_urls[l.idx + 1] = Some(StaticUrl(crop_file)),
                                          !.idx = l.idx + 1]
                          ELSE [ConSaved(l, p, l.crops[l.idx + 1], crop_file) EXCEPT !.pc = "raised"]]
        /\ UNCHANGED notConVars

\* lines 144-147 for the indices without a crop, and lines 166-175
ConCropsDone(p) ==
    LET l == invs[p]
    IN  /\ l.pc = "crops"
        /\ l.idx >= l.detected \/ l.idx >= Len(l.crops)
        /\ invs' = [invs EXCEPT ![p] =
                        [l EXCEPT !.idx = l.detected,
                                  !.cell = 0,
                                  !.added = 0,
                                  !.pc = IF l.enable_grid_fallback /\ l.detected < min_desired
                                         THEN "grid" ELSE "return"]]
        /\ UNCHANGED cfiles
        /\ UNCHANGED notConVars

\* lines 177-226 up to and including the next cell that is written; the caption call
\* answers with a caption that is accepted or not, or raises
ConGridCell(p) ==
    LET l == invs[p]
        k == NextCell(l.bboxes, l.cell)
        cell_box == CellBox(ConSize[1], ConSize[2], k % grid_n, k \div grid_n)
        extra_crop == [x1 |-> cell_box[1], y1 |-> cell_box[2],
                       x2 |-> cell_box[1] + cell_box[3], y2 |-> cell_box[2] + cell_box[4]]
        extra_bbox == [x |-> cell_box[1], y |-> cell_box[2], w |-> cell_box[3], h |-> cell_box[4]]
        extra_file == ExtraFile(Val(l.session_id), l.added)
    IN  /\ l.pc = "grid"
        /\ l.added < max_extra
        /\ k < grid_n * grid_n
        /\ cfiles' = _save_image_bytes(cfiles, ConImage(p, extra_crop), extra_file)
        /\ \E outcome \in {"accepted", "rejected", "raises"} :
              invs' = [invs EXCEPT ![p] =
                          CASE outcome = "accepted" ->
                                 [ConSaved(l, p, extra_crop, extra_file)
                                     EXCEPT !.bboxes = Append(l.bboxes, extra_bbox),
                                            !.crop_urls = Append(l.crop_urls, Some(StaticUrl(extra_file))),
                                            !.added = l.added + 1,
                                            !.cell = k + 1]
                            [] outcome = "rejected" ->
                                 [ConSaved(l, p, extra_crop, extra_file) EXCEPT !.cell = k + 1]
                            [] outcome = "raises" ->
                                 [ConSaved(l, p, extra_crop, extra_file) EXCEPT !.pc = "raised"]]
        /\ UNCHANGED notConVars

\* lines 177-180 and 227-228: no cell left, or max_extra additions
ConGridDone(p) ==
    LET l == invs[p]
    IN  /\ l.pc = "grid"
        /\ l.added >= max_extra \/ NextCell(l.bboxes, l.cell) >= grid_n * grid_n
        /\ invs' = [invs EXCEPT ![p].pc = "return"]
        /\ UNCHANGED cfiles
        /\ UNCHANGED notConVars

\* lines 230-235
ConReturn(p) ==
    LET l == invs[p]
    IN  /\ l.pc = "return"
        /\ invs' = [invs EXCEPT ![p] =
                        [l EXCEPT !.result = Some([session_id |-> Val(l.session_id),
                                                   original_url |-> StaticUrl(UploadFile(Val(l.session_id))),
                                                   crop_urls |-> l.crop_urls]),
                                  !.pc = "returned"]]
        /\ UNCHANGED cfiles
        /\ UNCHANGED notConVars

(***************************************************************************)
(* vision._resize_to_valid (lines 35-46) on image sizes, and the sizes     *)
(* classify_image_bytes hands to size_agent (weee_classifier.py 212-214).  *)
(* Python floats are modelled as exact fractions [num, den].               *)
(***************************************************************************)
\* a <= b for fractions of positive denominator
FracLeq(a, b) == a.num * b.den <= b.num * a.den
FracMin(a, b) == IF FracLeq(a, b) THEN a ELSE b
FracMax(a, b) == IF FracLeq(a, b) THEN b ELSE a
FracOne == [num |-> 1, den |-> 1]

\* int(n * f): the fraction dropped instead of rounded
RoundScaled_truncating(n, f) == (n * f.num) \div f.den

\* int(round(n * f)): Python rounds halves to the even neighbour
RoundScaled(n, f) ==
    LET num == n * f.num
        q == num \div f.den
        r == num % f.den
    IN  IF 2 * r < f.den THEN q
        ELSE IF 2 * r > f.den THEN q + 1
        ELSE IF q % 2 = 0 THEN q ELSE q + 1

\* lines 37-41: the scale _resize_to_valid chooses
ResizeScale(size) ==
    LET w == size[1]
        h == size[2]
        s1 == IF Min(w, h) < min_side
              THEN FracMax(FracOne, [num |-> min_side, den |-> Min(w, h)])
              ELSE FracOne
    IN  IF Max(w, h) > max_side
        THEN FracMin(s1, [num |-> max_side, den |-> Max(w, h)])
        ELSE s1

\* the scaled sides capped at max_side but not raised to min_side
_resize_to_valid_no_floor(size) ==
    LET scale == ResizeScale(size)
    IN  IF scale.num # scale.den
        THEN << Min(RoundScaled(size[1], scale), max_side),
                Min(RoundScaled(size[2], scale), max_side) >>
        ELSE size

\* lines 35-46, on the image's size
_resize_to_valid(size) ==
    LET scale == ResizeScale(size)
    IN  IF scale.num # scale.den
        THEN << Max(min_side, Min(RoundScaled(size[1], scale), max_side)),
                Max(min_side, Min(RoundScaled(size[2], scale), max_side)) >>
        ELSE size

\* sides of the uploaded images
RawSides == {1, 10, 49, 50, 51, 100, 16000, 16001, 20000}
RawSizes == RawSides \X RawSides

\* boxes the provider can report for an image of size pil: inside the image, sides 0 included
SizBoxes(pil) ==
    [x : {0}, y : {0}, w : {0, 1, pil[1] \div 5 - 1, pil[1] \div 5, pil[1]},
     h : {0, 10, pil[2]}]

\* the picked object: one with a box, or a dict without "bbox"
SizObjects(pil) ==
    [name : {T_car}, confidence : {9}, bbox : SizBoxes(pil), caption : {None}]
    \cup {[name |-> T_car, confidence |-> 9, caption |-> None]}

SizInit ==
    /\ npc = "start"
    /\ n_img \in RawSizes
    /\ n_pil = None
    /\ n_top = None
    /\ n_sz = None

\* no classify_image_bytes call is modelled
SizIdle ==
    /\ npc = "idle"
    /\ n_img = <<1, 1>>
    /\ n_pil = None
    /\ n_top = None
    /\ n_sz = None

\* vision.py lines 101-103, reached from weee_classifier.py line 212
SizNormalize ==
    /\ npc = "start"
    /\ n_pil' = Some(_resize_to_valid(n_img))
    /\ npc' = "normalized"
    /\ UNCHANGED <<n_img, n_top, n_sz>>
    /\ UNCHANGED notSizVars

\* vision.py lines 110-139 and weee_classifier.py line 213: the boxes are in the
\* coordinates of the image the provider was given, pil_img
SizDetect ==
    /\ npc = "normalized"
    /\ n_top' \in {None} \cup {Some(o) : o \in SizObjects(Val(n_pil))}
    /\ npc' = "detected"
    /\ UNCHANGED <<n_img, n_pil, n_sz>>
    /\ UNCHANGED notSizVars

\* weee_classifier.py line 214: size_agent opens image_bytes, the upload
SizSizeAgent ==
    /\ npc = "detected"
    /\ n_sz' = Some(size_agent(n_img, n_top))
    /\ npc' = "sized"
    /\ UNCHANGED <<n_img, n_pil, n_top>>
    /\ UNCHANGED notSizVars

(***************************************************************************)
(* The Twilio webhook, routes.py lines 274-381.                            *)
(***************************************************************************)
\* str.startswith
StartsWith(t, prefix) == Len(t) >= Len(prefix) /\ SubSeq(t, 1, Len(prefix)) = prefix

T_image_slash == <<"i","m","a","g","e","/">>
T_image_jpeg == <<"i","m","a","g","e","/","j","p","e","g">>
T_video_mp4 == <<"v","i","d","e","o","/","m","p","4">>

\* the reply bodies of lines 356 and 371
TwConfirmBody == "Imagem recebida. O laudo foi enviado ao revisor (usuário 02)."
TwForwardedBody == "Confirmação recebida e enviada ao solicitante (usuário 01)."

HookReply(status, body) == Some([status |-> status, body |-> body])
HookEvent(ev, to, k) == [ev |-> ev, to |-> to, k |-> k]

\* no webhook request is modelled
HookIdle ==
    /\ hpc = "idle"
    /\ hk_env = <<>>
    /\ hk_req = <<>>
    /\ hk_i = 0
    /\ hk_log = <<>>
    /\ hk_reply = None

\* the form Twilio posts, and the environment of lines 283-284 with the answer of
\* _validate_twilio_signature
TwInit ==
    /\ hpc = "tw_start"
    /\ hk_env \in [user01 : {"", "u1"}, user02 : {"", "u2"}, signature_ok : BOOLEAN]
    /\ hk_req \in [From : {"u1", "u2", "u3"}, Body : {"", "ok"}, NumMedia : {0, 1},
                    MediaUrl0 : BOOLEAN,
                    MediaContentType0 : {<<>>, T_image_jpeg, T_video_mp4}]
    /\ hk_i = 0
    /\ hk_log = <<>>
    /\ hk_reply = None

\* the reply of the branches that call nothing outside (lines 297-299, 303-311, 375), ""
\* for the branches that go on
TwReplyAtOnce(env, req) ==
    IF env.user01 = "" \/ env.user02 = ""
    THEN "Configuração de usuários não encontrada no servidor."
    ELSE IF req.From = env.user01
    THEN IF req.NumMedia <= 0
         THEN "Envie uma imagem para classificação WEEE."
         ELSE IF ~req.MediaUrl0 \/ ~StartsWith(req.MediaContentType0, T_image_slash)
         THEN "A mensagem não contém imagem suportada. Envie JPG/PNG."
         ELSE ""
    ELSE IF req.From = env.user02
    THEN ""
    ELSE "Este número aceita: (1) imagem de USER01 para classificação, (2) confirmação de USER02."

\* lines 279-281
TwInvalidSignature ==
    /\ hpc = "tw_start"
    /\ ~hk_env.signature_ok
    /\ hk_reply' = HookReply(403, "Invalid signature")
    /\ hpc' = "done"
    /\ UNCHANGED <<hk_env, hk_req, hk_i, hk_log>>
    /\ UNCHANGED notHookVars

\* lines 283-299, 303-311 and 375
TwAnswerAtOnce ==
    /\ hpc = "tw_start"
    /\ hk_env.signature_ok
    /\ TwReplyAtOnce(hk_env, hk_req) # ""
    /\ hk_reply' = HookReply(200, TwReplyAtOnce(hk_env, hk_req))
    /\ hpc' = "done"
    /\ UNCHANGED <<hk_env, hk_req, hk_i, hk_log>>
    /\ UNCHANGED notHookVars

\* lines 313-328: requests.get raises, answers with another status, or answers 200
TwDownload ==
    /\ hpc = "tw_start"
    /\ hk_env.signature_ok
    /\ TwReplyAtOnce(hk_env, hk_req) = ""
    /\ hk_req.From = hk_env.user01
    /\ \E outcome \in {"raises", "status_404", "status_200"} :
          IF outcome = "status_200"
          THEN /\ hk_log' = Append(hk_log, HookEvent("downloaded", "", 0))
               /\ hpc' = "tw_classify"
               /\ UNCHANGED hk_reply
          ELSE /\ hk_log' = Append(hk_log, HookEvent("download_failed", "", 0))
               /\ hk_reply' = HookReply(200, "Falha ao baixar a imagem. Tente novamente.")
               /\ hpc' = "done"
    /\ UNCHANGED <<hk_env, hk_req, hk_i>>
    /\ UNCHANGED notHookVars

\* lines 331-343; an exception of build_client or classify_weee reaches lines 377-381
TwClassify ==
    /\ hpc = "tw_classify"
    /\ \E raised \in BOOLEAN :
          IF raised
          THEN /\ hk_log' = Append(hk_log, HookEvent("classify_failed", "", 0))
               /\ hk_reply' = HookReply(200, "Erro ao processar a mensagem. Tente novamente.")
               /\ hpc' = "done"
          ELSE /\ hk_log' = Append(hk_log, HookEvent("classified", "", 0))
               /\ hpc' = "tw_send"
               /\ UNCHANGED hk_reply
    /\ UNCHANGED <<hk_env, hk_req, hk_i>>
    /\ UNCHANGED notHookVars

\* lines 345-357: _send_whatsapp returns, or raises (no token, no answer, status >= 400)
TwSendReport ==
    /\ hpc = "tw_send"
    /\ \E raised \in BOOLEAN :
          IF raised
          THEN /\ hk_log' = Append(hk_log, HookEvent("send_failed", hk_env.user02, 0))
               /\ hk_reply' = HookReply(200, "Erro ao encaminhar o laudo ao revisor.")
          ELSE /\ hk_log' = Append(hk_log, HookEvent("report_sent", hk_env.user02, 0))
               /\ hk_reply' = HookReply(200, TwConfirmBody)
    /\ hpc' = "done"
    /\ UNCHANGED <<hk_env, hk_req, hk_i>>
    /\ UNCHANGED notHookVars

\* the confirmation given without looking at the outcome of the send
TwForward_always_confirms ==
    /\ hpc = "tw_start"
    /\ hk_env.signature_ok
    /\ TwReplyAtOnce(hk_env, hk_req) = ""
    /\ hk_req.From # hk_env.user01
    /\ \E raised \in BOOLEAN :
          /\ hk_log' = Append(hk_log, HookEvent(IF raised THEN "send_failed" ELSE "forwarded",
                                                hk_env.user01, 0))
          /\ hk_reply' = HookReply(200, TwForwardedBody)
    /\ hpc' = "done"
    /\ UNCHANGED <<hk_env, hk_req, hk_i>>
    /\ UNCHANGED notHookVars

\* lines 360-372: a message of USER02 is sent on to USER01
TwForward ==
    /\ hpc = "tw_start"
    /\ hk_env.signature_ok
    /\ TwReplyAtOnce(hk_env, hk_req) = ""
    /\ hk_req.From # hk_env.user01
    /\ \E raised \in BOOLEAN :
          IF raised
          THEN /\ hk_log' = Append(hk_log, HookEvent("send_failed", hk_env.user01, 0))
               /\ hk_reply' = HookReply(200, "Erro ao enviar a confirmação ao solicitante.")
          ELSE /\ hk_log' = Append(hk_log, HookEvent("forwarded", hk_env.user01, 0))
               /\ hk_reply' = HookReply(200, TwForwardedBody)
    /\ hpc' = "done"
    /\ UNCHANGED <<hk_env, hk_req, hk_i>>
    /\ UNCHANGED notHookVars

(***************************************************************************)
(* The Meta webhook, POST: routes.py lines 399-470.                        *)
(***************************************************************************)
\* the messages of a payload: from, type, text body, and whether an image id is given;
\* "malformed" is an element of the list that is not a dict
MetaMessages ==
    { [from |-> "u1", type |-> "image", body |-> "", media_id |-> TRUE],
      [from |-> "u1", type |-> "image", body |-> "", media_id |-> FALSE],
      [from |-> "u1", type |-> "text", body |-> "oi", media_id |-> FALSE],
      [from |-> "u2", type |-> "text", body |-> "ok", media_id |-> FALSE],
      [from |-> "u2", type |-> "text", body |-> "", media_id |-> FALSE],
      [from |-> "u2", type |-> "audio", body |-> "", media_id |-> FALSE],
      [from |-> "u2", type |-> "malformed", body |-> "", media_id |-> FALSE] }

\* the body is a JSON object or a JSON array; messages holds the messages of all entries
\* in order, none meaning a payload without entries
MtInit ==
    /\ hpc = "mt_start"
    /\ hk_env = [user01 |-> "u1", user02 |-> "u2"]
    /\ hk_req \in [json : {"object", "array"}, messages : SeqsUpTo(MetaMessages, MaxMsgs)]
    /\ hk_i = 0
    /\ hk_log = <<>>
    /\ hk_reply = None

\* the message the loop of line 418 is at
MtMsg == hk_req.messages[hk_i + 1]
MtInLoop == hpc = "mt_loop" /\ hk_i < Len(hk_req.messages)

\* lines 401-405: data.keys() raises on an array (line 402); no entries
MtParse ==
    /\ hpc = "mt_start"
    /\ IF hk_req.json = "array"
       THEN hk_reply' = HookReply(200, "internal_error") /\ hpc' = "done"
       ELSE IF hk_req.messages = <<>>
       THEN hk_reply' = HookReply(200, "ignored") /\ hpc' = "done"
       ELSE hpc' = "mt_loop" /\ UNCHANGED hk_reply
    /\ UNCHANGED <<hk_env, hk_req, hk_i, hk_log>>
    /\ UNCHANGED notHookVars

\* line 419 raising on an element that is not a dict: lines 468-470
MtMalformed ==
    /\ MtInLoop
    /\ MtMsg.type = "malformed"
    /\ hk_log' = Append(hk_log, HookEvent("malformed", "", hk_i + 1))
    /\ hk_reply' = HookReply(200, "internal_error")
    /\ hpc' = "done"
    /\ UNCHANGED <<hk_env, hk_req, hk_i>>
    /\ UNCHANGED notHookVars

\* a message that takes neither case: lines 436-438, or 425-429 with 441 and 459 false
MtSkip ==
    /\ MtInLoop
    /\ \/ MtMsg.type \notin {"text", "image", "malformed"}
       \/ MtMsg.type = "text" /\ ~(MtMsg.from = hk_env.user02 /\ MtMsg.body # "")
       \/ MtMsg.type = "image" /\ ~MtMsg.media_id
    /\ hk_log' = Append(hk_log, HookEvent("skipped", "", hk_i + 1))
    /\ hk_i' = hk_i + 1
    /\ UNCHANGED <<hpc, hk_env, hk_req, hk_reply>>
    /\ UNCHANGED notHookVars

\* lines 427-435 and 441: _meta_download_media_bytes raises, or returns bytes or none
MtDownload ==
    /\ MtInLoop
    /\ MtMsg.type = "image" /\ MtMsg.media_id
    /\ \E outcome \in {"raises", "empty", "bytes"} :
          IF outcome = "bytes" /\ MtMsg.from = hk_env.user01
          THEN /\ hk_log' = Append(hk_log, HookEvent("downloaded", "", hk_i + 1))
               /\ hpc' = "mt_classify"
               /\ UNCHANGED hk_i
          ELSE /\ hk_log' = Append(hk_log, HookEvent(IF outcome = "raises" THEN "download_failed"
                                                     ELSE "downloaded", "", hk_i + 1))
               /\ hk_i' = hk_i + 1
               /\ UNCHANGED hpc
    /\ UNCHANGED <<hk_env, hk_req, hk_reply>>
    /\ UNCHANGED notHookVars

\* the exception of classify_weee leaving the loop, as if lines 442 and 454 were not there
MtClassify_failure_ends ==
    /\ hpc = "mt_classify"
    /\ \E raised \in BOOLEAN :
          IF raised
          THEN /\ hk_log' = Append(hk_log, HookEvent("classify_failed", "", hk_i + 1))
               /\ hk_reply' = HookReply(200, "internal_error")
               /\ hpc' = "done"
               /\ UNCHANGED hk_i
          ELSE /\ hk_log' = Append(hk_log, HookEvent("classified", "", hk_i + 1))
               /\ hpc' = "mt_send"
               /\ UNCHANGED <<hk_i, hk_reply>>
    /\ UNCHANGED <<hk_env, hk_req>>
    /\ UNCHANGED notHookVars

\* lines 442-450 and 454-456
MtClassify ==
    /\ hpc = "mt_classify"
    /\ \E raised \in BOOLEAN :
          IF raised
          THEN /\ hk_log' = Append(hk_log, HookEvent("classify_failed", "", hk_i + 1))
               /\ hk_i' = hk_i + 1
               /\ hpc' = "mt_loop"
          ELSE /\ hk_log' = Append(hk_log, HookEvent("classified", "", hk_i + 1))
               /\ hpc' = "mt_send"
               /\ UNCHANGED hk_i
    /\ UNCHANGED <<hk_env, hk_req, hk_reply>>
    /\ UNCHANGED notHookVars

\* lines 451-456: the report to USER02, then the confirmation to USER01
MtSendReport ==
    /\ hpc = "mt_send"
    /\ \E outcome \in {"report_raises", "confirm_raises", "both_sent"} :
          hk_log' = hk_log \o
              CASE outcome = "report_raises" ->
                     << HookEvent("send_failed", hk_env.user02, hk_i + 1) >>
                [] outcome = "confirm_raises" ->
                     << HookEvent("report_sent", hk_env.user02, hk_i + 1),
                        HookEvent("send_failed", hk_env.user01, hk_i + 1) >>
                [] outcome = "both_sent" ->
                     << HookEvent("report_sent", hk_env.user02, hk_i + 1),
                        HookEvent("confirmed", hk_env.user01, hk_i + 1) >>
    /\ hk_i' = hk_i + 1
    /\ hpc' = "mt_loop"
    /\ UNCHANGED <<hk_env, hk_req, hk_reply>>
    /\ UNCHANGED notHookVars

\* lines 459-465: the text of USER02 to USER01, then the acknowledgement to USER02
MtForward ==
    /\ MtInLoop
    /\ MtMsg.type = "text" /\ MtMsg.from = hk_env.user02 /\ MtMsg.body # ""
    /\ \E outcome \in {"forward_raises", "ack_raises", "both_sent"} :
          hk_log' = hk_log \o
              CASE outcome = "forward_raises" ->
                     << HookEvent("send_failed", hk_env.user01, hk_i + 1) >>
                [] outcome = "ack_raises" ->
                     << HookEvent("forwarded", hk_env.user01, hk_i + 1),
                        HookEvent("send_failed", hk_env.user02, hk_i + 1) >>
                [] outcome = "both_sent" ->
                     << HookEvent("forwarded", hk_env.user01, hk_i + 1),
                        HookEvent("acknowledged", hk_env.user02, hk_i + 1) >>
    /\ hk_i' = hk_i + 1
    /\ UNCHANGED <<hpc, hk_env, hk_req, hk_reply>>
    /\ UNCHANGED notHookVars

\* line 467
MtDone ==
    /\ hpc = "mt_loop"
    /\ hk_i = Len(hk_req.messages)
    /\ hk_reply' = HookReply(200, "ok")
    /\ hpc' = "done"
    /\ UNCHANGED <<hk_env, hk_req, hk_i, hk_log>>
    /\ UNCHANGED notHookVars

(***************************************************************************)
(* The Telegram webhook, routes.py lines 483-579.                          *)
(***************************************************************************)
\* TELEGRAM_USER01_ID and TELEGRAM_USER02_ID ("" when unset), and the update: whether it
\* has a message, the chat it came from, its text, whether it has photos
TgInit ==
    /\ hpc = "tg_start"
    /\ hk_env \in [user01 : {"", "u1"}, user02 : {"", "u2"}]
    /\ hk_req \in [message : BOOLEAN, chat_id : {"u1", "u2", "u3"}, text : {"", "ok"},
                    photos : BOOLEAN]
    /\ hk_i = 0
    /\ hk_log = <<>>
    /\ hk_reply = None

\* the branch the handler takes: lines 508, 520, 565, 574
TgCase(env, req) ==
    IF ~req.message THEN "none"
    ELSE IF env.user01 # "" /\ req.chat_id = env.user01 /\ req.photos THEN "photo"
    ELSE IF env.user02 # "" /\ req.chat_id = env.user02 /\ req.text # "" THEN "confirmation"
    ELSE "other"

\* _tg_send_text and _tg_send_photo (lines 483-496): the message is delivered, or Telegram
\* answers with a status >= 400, which is only logged, or the call raises (no token, no
\* connection)
TgSendOutcomes == {"delivered", "error_status", "raises"}

\* the log after a send of ev to chat `to` with the given outcome
TgSent(log, ev, to, outcome) ==
    IF outcome = "delivered" THEN Append(log, HookEvent(ev, to, 0)) ELSE log

\* lines 508-509
TgNoMessage ==
    /\ hpc = "tg_start"
    /\ TgCase(hk_env, hk_req) = "none"
    /\ hk_reply' = HookReply(200, "ok")
    /\ hpc' = "done"
    /\ UNCHANGED <<hk_env, hk_req, hk_i, hk_log>>
    /\ UNCHANGED notHookVars

\* lines 520-539: getFile and the download; an exception reaches lines 577-579
TgFetch ==
    /\ hpc = "tg_start"
    /\ TgCase(hk_env, hk_req) = "photo"
    /\ \E outcome \in {"raises", "failed", "bytes"} :
          CASE outcome = "raises" ->
                 /\ hk_reply' = HookReply(200, "ok")
                 /\ hpc' = "done"
                 /\ UNCHANGED hk_log
            [] outcome = "failed" ->
                 /\ hpc' = "tg_notice"
                 /\ hk_log' = Append(hk_log, HookEvent("download_failed", "", 0))
                 /\ UNCHANGED hk_reply
            [] outcome = "bytes" ->
                 /\ hpc' = "tg_classify"
                 /\ hk_log' = Append(hk_log, HookEvent("downloaded", "", 0))
                 /\ UNCHANGED hk_reply
    /\ UNCHANGED <<hk_env, hk_req, hk_i>>
    /\ UNCHANGED notHookVars

\* lines 542-549; an exception reaches lines 577-579
TgClassify ==
    /\ hpc = "tg_classify"
    /\ \E raised \in BOOLEAN :
          IF raised
          THEN /\ hk_log' = Append(hk_log, HookEvent("classify_failed", "", 0))
               /\ hk_reply' = HookReply(200, "ok")
               /\ hpc' = "done"
          ELSE /\ hk_log' = Append(hk_log, HookEvent("classified", "", 0))
               /\ hpc' = "tg_report"
               /\ UNCHANGED hk_reply
    /\ UNCHANGED <<hk_env, hk_req, hk_i>>
    /\ UNCHANGED notHookVars

\* lines 551-558: the report goes to USER02 if it is configured
TgSendReport ==
    /\ hpc = "tg_report"
    /\ IF hk_env.user02 = ""
       THEN /\ hpc' = "tg_confirm"
            /\ UNCHANGED <<hk_log, hk_reply>>
       ELSE \E outcome \in TgSendOutcomes :
              /\ hk_log' = TgSent(hk_log, "report_sent", hk_env.user02, outcome)
              /\ IF outcome = "raises"
                 THEN hk_reply' = HookReply(200, "ok") /\ hpc' = "done"
                 ELSE hpc' = "tg_confirm" /\ UNCHANGED hk_reply
    /\ UNCHANGED <<hk_env, hk_req, hk_i>>
    /\ UNCHANGED notHookVars

\* lines 565-568: the text of USER02 goes to USER01 if it is configured
TgForward ==
    /\ hpc = "tg_start"
    /\ TgCase(hk_env, hk_req) = "confirmation"
    /\ IF hk_env.user01 = ""
       THEN /\ hpc' = "tg_ack"
            /\ UNCHANGED <<hk_log, hk_reply>>
       ELSE \E outcome \in TgSendOutcomes :
              /\ hk_log' = TgSent(hk_log, "forwarded", hk_env.user01, outcome)
              /\ IF outcome = "raises"
                 THEN hk_reply' = HookReply(200, "ok") /\ hpc' = "done"
                 ELSE hpc' = "tg_ack" /\ UNCHANGED hk_reply
    /\ UNCHANGED <<hk_env, hk_req, hk_i>>
    /\ UNCHANGED notHookVars

\* the last message of a branch and the answer: the failure notice (lines 527, 531, 537),
\* the confirmation to USER01 (lines 560-562), the acknowledgement to USER02 (lines
\* 569-570), the hint to any other sender (lines 574-575)
TgLastSend ==
    /\ \/ hpc \in {"tg_notice", "tg_confirm", "tg_ack"}
       \/ hpc = "tg_start" /\ TgCase(hk_env, hk_req) = "other"
    /\ \E outcome \in TgSendOutcomes :
          hk_log' = CASE hpc = "tg_notice" -> TgSent(hk_log, "failure_notice", hk_req.chat_id, outcome)
                      [] hpc = "tg_confirm" -> TgSent(hk_log, "confirmed", hk_env.user01, outcome)
                      [] hpc = "tg_ack" -> TgSent(hk_log, "acknowledged", hk_env.user02, outcome)
                      [] hpc = "tg_start" -> TgSent(hk_log, "hint", hk_req.chat_id, outcome)
    /\ hk_reply' = HookReply(200, "ok")
    /\ hpc' = "done"
    /\ UNCHANGED <<hk_env, hk_req, hk_i>>
    /\ UNCHANGED notHookVars

(***************************************************************************)
(* Specifications.                                                         *)
(*   Spec       : one classify_image_bytes call on a detector output.      *)
(*   SpecDetect : one analyze_image_bytes call against the provider.       *)
(*   SpecAnalyze: one request to the analyze route.                        *)
(*   SpecIou    : the two IoU functions on a pair of boxes.                *)
(*   SpecSessions: concurrent analyze_image_bytes calls, one static_dir.   *)
(*   SpecSize   : the sizes from the upload to size_agent.                *)
(*   SpecTwilio : one request to the Twilio webhook.                       *)
(*   SpecMeta   : one POST to the Meta webhook.                            *)
(*   SpecTelegram: one update posted to the Telegram webhook.              *)
(***************************************************************************)
vars == <<clsVars, detVars, anVars, iouVars, conVars, sizVars, hookVars>>

Init == ClsInit /\ DetIdle /\ AnIdle /\ IouIdle /\ ConIdle /\ SizIdle /\ HookIdle

Next ==
    \/ SelectAndSize
    \/ NonEeeFilter
    \/ RuleAgent
    \/ Arbiter
    \/ Return

Spec == Init /\ [][Next]_vars

\* analyze_image_bytes called directly, or by visual_agent (which disables the grid fallback)
InitDetect ==
    /\ DetInit
    /\ \/ ClsIdle
       \/ ClsCalling /\ ~enable_grid_fallback
    /\ AnIdle
    /\ IouIdle
    /\ ConIdle
    /\ SizIdle
    /\ HookIdle

NextDetect ==
    \/ DecodeFails
    \/ OpenSession
    \/ PrimaryAnalyzeFails
    \/ PrimaryAnalyze
    \/ CropSkip
    \/ CropCaption
    \/ CropCaptionFails
    \/ CropsDone
    \/ GridCellSkipped
    \/ GridCaption
    \/ GridCaptionFails
    \/ DetectorReturn
    \/ VisualAgentReturns
    \/ VisualAgentRaises

SpecDetect == InitDetect /\ [][NextDetect]_vars

InitAnalyze == AnInit /\ ClsIdle /\ DetIdle /\ IouIdle /\ ConIdle /\ SizIdle /\ HookIdle

NextAnalyze ==
    \/ AnRejectRequest
    \/ AnAnalyzeFails
    \/ AnPreprocess
    \/ AnIgnoreNonEee
    \/ AnIgnoreSubpart
    \/ AnSkipNoCrop
    \/ AnSkipMissingCrop
    \/ AnClassify
    \/ AnClassifyRaises
    \/ AnRender

SpecAnalyze == InitAnalyze /\ [][NextAnalyze]_vars

InitIou == IouInit /\ ClsIdle /\ DetIdle /\ AnIdle /\ ConIdle /\ SizIdle /\ HookIdle

NextIou ==
    \/ ApplyIou
    \/ ApplyBboxIou

SpecIou == InitIou /\ [][NextIou]_vars

InitSessions == ConInit /\ ClsIdle /\ DetIdle /\ AnIdle /\ IouIdle /\ SizIdle /\ HookIdle

NextSessions ==
    \E p \in Invocations :
        \/ ConOpenSession(p)
        \/ ConPrimaryAnalyzeFails(p)
        \/ ConPrimaryAnalyze(p)
        \/ ConCropCaption(p)
        \/ ConCropsDone(p)
        \/ ConGridCell(p)
        \/ ConGridDone(p)
        \/ ConReturn(p)

SpecSessions == InitSessions /\ [][NextSessions]_vars

InitSize == SizInit /\ ClsIdle /\ DetIdle /\ AnIdle /\ IouIdle /\ ConIdle /\ HookIdle

NextSize ==
    \/ SizNormalize
    \/ SizDetect
    \/ SizSizeAgent

SpecSize == InitSize /\ [][NextSize]_vars

InitTwilio == TwInit /\ ClsIdle /\ DetIdle /\ AnIdle /\ IouIdle /\ ConIdle /\ SizIdle

NextTwilio ==
    \/ TwInvalidSignature
    \/ TwAnswerAtOnce
    \/ TwDownload
    \/ TwClassify
    \/ TwSendReport
    \/ TwForward

SpecTwilio == InitTwilio /\ [][NextTwilio]_vars

InitMeta == MtInit /\ ClsIdle /\ DetIdle /\ AnIdle /\ IouIdle /\ ConIdle /\ SizIdle

NextMeta ==
    \/ MtParse
    \/ MtMalformed
    \/ MtSkip
    \/ MtDownload
    \/ MtClassify
    \/ MtSendReport
    \/ MtForward
    \/ MtDone

SpecMeta == InitMeta /\ [][NextMeta]_vars

InitTelegram == TgInit /\ ClsIdle /\ DetIdle /\ AnIdle /\ IouIdle /\ ConIdle /\ SizIdle

NextTelegram ==
    \/ TgNoMessage
    \/ TgFetch
    \/ TgClassify
    \/ TgSendReport
    \/ TgForward
    \/ TgLastSend

SpecTelegram == InitTelegram /\ [][NextTelegram]_vars

(***************************************************************************)
(* Properties of the classifier, checked under Spec.                       *)
(***************************************************************************)
ScoresKnown == cat_scores # None
AllScoresZero == ScoresKnown /\ \A c \in 1..6 : Val(cat_scores)[c] = 0
SomeScorePositive == ScoresKnown /\ \E c \in 1..6 : Val(cat_scores)[c] > 0
Returned == result # None
ReturnedFiltered == Returned /\ "filtered" \in DOMAIN Val(result)

\* the number of distinct entries of the non-EEE keyword list that occur in a text
DistinctNonEeeMatches(text) ==
    LET entries == {NON_EEE_KEYWORDS[i] : i \in 1..Len(NON_EEE_KEYWORDS)}
        t == Lower(Strip(text))
    IN  Cardinality({k \in entries : Contains(k, t)})

\* C1: every returned result has exactly one of category and filtered: either category is
\* null and filtered.reason is "non_eee", or category is {id, name} with id in 1..6 and there
\* is no filtered entry.
C1_CategoryXorFiltered ==
    Returned =>
        LET r == Val(result)
        IN  \/ /\ r.category = None
               /\ "filtered" \in DOMAIN r
               /\ r.filtered.reason = "non_eee"
            \/ /\ r.category # None
               /\ Val(r.category).id \in 1..6
               /\ Val(r.category).name = CategoryName(Val(r.category).id)
               /\ "filtered" \notin DOMAIN r

\* a filtered result has been returned
C1_Witness == ReturnedFiltered /\ Val(result).category = None

\* C2: when some category score is positive the non-EEE filter answers false, whatever the
\* number of non-EEE keywords in the text, and no filtered result is returned.
C2_ScoreBlocksFilter ==
    SomeScorePositive =>
        /\ ~_is_non_eee(combined, Val(cat_scores))
        /\ ~ReturnedFiltered

\* a category result returned although the text holds two or more non-EEE keywords
C2_Witness ==
    /\ pc = "done"
    /\ SomeScorePositive
    /\ ~ReturnedFiltered
    /\ DistinctNonEeeMatches(combined) >= 2

\* C3: when all six scores are zero, the filter triggers exactly when at least 2 distinct
\* entries of the non-EEE keyword list occur in the combined text.
C3_TwoDistinctMatches ==
    (AllScoresZero /\ (pc = "rules" \/ ReturnedFiltered)) =>
        (ReturnedFiltered <=> DistinctNonEeeMatches(combined) >= 2)

\* the filter passed a text with exactly one non-EEE keyword and no category keyword
C3_Witness ==
    /\ pc = "rules"
    /\ AllScoresZero
    /\ DistinctNonEeeMatches(combined) = 1

\* C4: with zero keyword matches in all six categories rule_agent answers category 4 for the
\* bucket "grande" and category 5 for "pequeno" or no bucket, with source "size_fallback";
\* the fallback produces no other category.
C4_SizeFallback ==
    rules_choice # None =>
        LET rc == Val(rules_choice)
            bucket == Val(sz).size_bucket
        IN  /\ AllScoresZero =>
                /\ rc.evidence.source = "size_fallback"
                /\ bucket = Some("grande") => rc.category_id = 4
                /\ bucket \in {None, Some("pequeno")} => rc.category_id = 5
                /\ bucket \in {None, Some("pequeno"), Some("grande")}
            /\ rc.evidence.source = "size_fallback" => (AllScoresZero /\ rc.category_id \in {4, 5})

\* the fallback answered category 4 for a large object
C4_Witness ==
    /\ rules_choice # None
    /\ AllScoresZero
    /\ Val(sz).size_bucket = Some("grande")
    /\ Val(rules_choice).category_id = 4

PreferenceOrder == <<1, 2, 3, 6, 4, 5>>
PreferenceRank(c) == CHOOSE i \in 1..6 : PreferenceOrder[i] = c

\* C5: with some score non-zero rule_agent answers a category of maximal score, the first of
\* the tied ones in the order [1,2,3,6,4,5], with source "keywords" and the full score map.
C5_MaxScoreByPreference ==
    (rules_choice # None /\ SomeScorePositive) =>
        LET rc == Val(rules_choice)
            sc == Val(cat_scores)
        IN  /\ \A c \in 1..6 : sc[c] <= sc[rc.category_id]
            /\ \A c \in 1..6 :
                  sc[c] = sc[rc.category_id] => PreferenceRank(rc.category_id) <= PreferenceRank(c)
            /\ rc.score = sc[rc.category_id]
            /\ rc.evidence.source = "keywords"
            /\ rc.evidence.scores = sc

\* categories 5 and 6 tied at the maximum, and 6 was answered
C5_Witness ==
    /\ rules_choice # None
    /\ SomeScorePositive
    /\ Val(cat_scores)[5] = Val(cat_scores)[6]
    /\ \A c \in 1..6 : Val(cat_scores)[c] <= Val(cat_scores)[6]
    /\ Val(rules_choice).category_id = 6

\* the arbiter's answer names no category: no id 1..6 and no category name occurs in it
NamesNoCategory(text) ==
    \A i \in 1..Len(CATEGORIES) :
        /\ ~Contains(Str1(CATEGORIES[i].id), text)
        /\ ~Contains(Lower(CATEGORIES[i].name), Lower(text))

ArbiterFailed(env) ==
    \/ ~env.endpoint
    \/ env.client = "raises"
    \/ env.client = "failed"
    \/ NamesNoCategory(env.text)

\* C6: with the arbiter enabled, a missing endpoint, an exception of the client, a failed run
\* or an answer naming no category gives "no opinion", and the result returned is the one of
\* rule_agent, as with the arbiter disabled.
C6_ArbiterFailureFallsBack ==
    (arb_env # None /\ ArbiterFailed(Val(arb_env))) =>
        /\ arb = None
        /\ Returned =>
              LET r == Val(result)
                  rc == Val(rules_choice)
              IN  /\ r.category = Some([id |-> rc.category_id, name |-> rc.category_name])
                  /\ r.explanation = rc.evidence
                  /\ r = ClassifiedResult(vis, top_obj, Val(sz), rc, rc)

\* a result returned after the arbiter answered without naming a category
C6_Witness ==
    /\ Returned
    /\ use_llm_arbiter
    /\ arb_env # None
    /\ Val(arb_env).endpoint
    /\ Val(arb_env).client = "completed"
    /\ Val(arb_env).text = T_nao_sei

FirstOf(S) == CHOOSE i \in S : \A j \in S : i <= j

\* the index the object selector is to return for a non-empty list
ExpectedPick(os) ==
    LET top == {i \in 1..Len(os) : \A j \in 1..Len(os) : os[j].confidence <= os[i].confidence}
        first == FirstOf(top)
        captioned == {j \in top : j > first /\ Truthy(os[j].caption)}
    IN  IF ~Truthy(os[first].caption) /\ captioned # {} THEN FirstOf(captioned) ELSE first

\* C7: _pick_best_object returns none for an empty list; otherwise the first object of
\* maximal confidence, unless that one has no caption and a later one of the same confidence
\* has a non-empty caption, in which case the first such one.
C7_PickBestObject ==
    pc \notin {"idle", "select"} =>
        IF vis.objects = <<>> THEN top_obj = None
        ELSE top_obj = Some(vis.objects[ExpectedPick(vis.objects)])

\* the second object was selected: same confidence as the first, which has no caption
C7_Witness ==
    /\ pc \notin {"idle", "select"}
    /\ Len(vis.objects) >= 2
    /\ vis.objects[1].confidence = vis.objects[2].confidence
    /\ ~Truthy(vis.objects[1].caption)
    /\ Truthy(vis.objects[2].caption)
    /\ top_obj = Some(vis.objects[2])

\* C8: a sole detected object named "refrigerator" with confidence 0.9 and no caption is
\* classified as category 1 with confidence 0.9 and source "keywords" (taken with no scene
\* caption and the arbiter disabled, so that the object name is the only evidence).
C8_RefrigeratorIsCategory1 ==
    (/\ pc = "done"
     /\ ~use_llm_arbiter
     /\ vis.image_caption = None
     /\ Len(vis.objects) = 1
     /\ vis.objects[1].name = T_refrigerator
     /\ vis.objects[1].confidence = 9
     /\ vis.objects[1].caption = None) =>
        /\ Val(result).category = Some([id |-> 1, name |-> CategoryName(1)])
        /\ Val(result).confidence = 9
        /\ "explanation" \in DOMAIN Val(result)
        /\ Val(result).explanation.source = "keywords"

(***************************************************************************)
(* Properties of the detector, checked under SpecDetect.                   *)
(***************************************************************************)
\* a bounding box clipped to the image, as the rectangle [x1, y1, x2, y2]
ClippedBox(bbox) ==
    [x1 |-> Max(0, bbox.x), y1 |-> Max(0, bbox.y),
     x2 |-> Min(pil_size[1], bbox.x + bbox.w), y2 |-> Min(pil_size[2], bbox.y + bbox.h)]

EmptyRect(r) == r.x2 - r.x1 <= 0 \/ r.y2 - r.y1 <= 0

FileHolds(path, image) == \E f \in files : f.path = path /\ f.image = image

\* C9: in the detector output every object with a crop_url has it pointing to the persisted
\* crop of its own clipped bounding box, and an object whose clipped box is empty has no
\* crop_url.
C9_CropIsOwnBox ==
    det_result # None =>
        \A i \in 1..Len(Val(det_result).objects) :
            LET o == Val(det_result).objects[i]
            IN  /\ o.crop_url # None =>
                      FileHolds(UrlToPath(Val(o.crop_url)), ClippedBox(o.bbox))
                /\ EmptyRect(ClippedBox(o.bbox)) => o.crop_url = None

\* C10: a failing caption call for one object's crop does not keep the detector from
\* returning a result.
C10_CropCaptionFailureTolerated ==
    failed_call = "crop" => dpc # "raised"

(***************************************************************************)
(* Errors of the provider inside analyze_image_bytes.                      *)
(***************************************************************************)
\* C11: a failing provider call for one grid cell is skipped silently: the scan goes on with
\* the remaining cells and the detector returns normally, so the failure of a grid cell call
\* never ends the invocation with an exception.
C11_GridCellFailureSkipped == failed_call = "grid" => dpc # "raised"

\* C12: when the image bytes cannot be decoded or the whole-image provider call fails,
\* analyze_image_bytes ends with the exception and returns nothing, and classify_image_bytes
\* (calling it through visual_agent) ends with the exception too: it gets no detector output
\* and returns no classification.
C12_FatalErrorsGiveNoResult ==
    failed_call \in {"decode", "primary"} =>
        /\ dpc = "raised"
        /\ det_result = None
        /\ pc \in {"idle", "visual", "raised"}
        /\ vis.objects = <<>> /\ vis.image_caption = None
        /\ top_obj = None /\ rules_choice = None
        /\ result = None

\* classify_image_bytes was left by the exception of the whole-image call
C12_Witness == failed_call = "primary" /\ pc = "raised" /\ files # {}

(***************************************************************************)
(* The analyze route: which objects are classified.                        *)
(***************************************************************************)
\* the loop of the route has dealt with object i
Processed(i) == apc \in {"loop", "done"} /\ i <= ai

InterArea(a, b) ==
    LET iw == Min(a.x + a.w, b.x + b.w) - Max(a.x, b.x)
        ih == Min(a.y + a.h, b.y + b.h) - Max(a.y, b.y)
    IN  IF iw > 0 /\ ih > 0 THEN iw * ih ELSE 0

UnionArea(a, b) == a.w * a.h + b.w * b.h - InterArea(a, b)

\* the other objects flagged parent device whose box has IoU >= 0.2 with the box of i
OverlappingParents(i) ==
    {j \in 1..Len(objs) :
        /\ j # i
        /\ objs[j]._is_parent
        /\ UnionArea(objs[i].bbox, objs[j].bbox) > 0
        /\ 5 * InterArea(objs[i].bbox, objs[j].bbox) >= UnionArea(objs[i].bbox, objs[j].bbox)}

\* the mark "Ignorado (parte de ...)"
IsPartOfMark(mark) ==
    /\ mark # None
    /\ Len(Val(mark)) > Len(L_ignorado_parte_de)
    /\ SubSeq(Val(mark), 1, Len(L_ignorado_parte_de)) = L_ignorado_parte_de

MarkedPartOfOverlappingParent(i) ==
    /\ \E j \in OverlappingParents(i) :
          objs[i].weee_category =
              Some(L_ignorado_parte_de \o objs[j].name \o <<")">>)
    /\ i \notin classified

\* C13: an object flagged subpart whose box has IoU >= 0.2 with the box of another object
\* flagged parent device is marked "ignored (part of <parent name>)" and is never passed to
\* classify; a subpart whose IoU with every parent is below 0.2 is not marked this way.
C13_SubpartOfParentIgnored ==
    \A i \in 1..Len(objs) :
        (Processed(i) /\ objs[i]._is_subpart) =>
            IF OverlappingParents(i) # {}
            THEN MarkedPartOfOverlappingParent(i)
            ELSE ~IsPartOfMark(objs[i].weee_category)

\* C13 as the code has it: the same, for the subparts the non-EEE rule has not already
\* ignored (flagged non-EEE and not parent device): those are marked "ignored (non-EEE)".
C13_SubpartOfParentIgnored_Amended ==
    \A i \in 1..Len(objs) :
        (Processed(i) /\ objs[i]._is_subpart) =>
            IF OverlappingParents(i) # {} /\ ~(objs[i]._is_non_eee /\ ~objs[i]._is_parent)
            THEN MarkedPartOfOverlappingParent(i)
            ELSE ~IsPartOfMark(objs[i].weee_category)

\* a subpart was marked as part of a parent its box meets with IoU exactly 0.2
C13_Witness ==
    \E i \in 1..Len(objs) : \E j \in 1..Len(objs) :
        /\ Processed(i)
        /\ objs[i]._is_subpart /\ ~objs[i]._is_non_eee
        /\ j \in OverlappingParents(i)
        /\ 5 * InterArea(objs[i].bbox, objs[j].bbox) = UnionArea(objs[i].bbox, objs[j].bbox)
        /\ IsPartOfMark(objs[i].weee_category)
        /\ i \notin classified

\* C14: every object flagged non-EEE and not flagged parent device is marked
\* "ignored (non-EEE)" and never passed to classify, whatever its subpart flag, its overlaps
\* and its crop; an object flagged non-EEE and parent device is not ignored by this rule: it
\* goes on to the subpart test and, with a crop on disk, to classify.
C14_NonEeeIgnored ==
    \A i \in 1..Len(objs) :
        (Processed(i) /\ objs[i]._is_non_eee) =>
            IF ~objs[i]._is_parent
            THEN /\ objs[i].weee_category = Some(L_ignorado_nao_eee)
                 /\ i \notin classified
            ELSE \/ i \in classified
                 \/ IsPartOfMark(objs[i].weee_category)
                 \/ (objs[i].weee_category = None /\ (objs[i].crop_url = None \/ ~objs[i].crop_exists))

\* a non-EEE subpart with a crop, overlapping a parent, was ignored as non-EEE, and a
\* non-EEE parent device was handed to classify
C14_Witness ==
    \E i \in 1..Len(objs) : \E j \in 1..Len(objs) :
        /\ Processed(i) /\ Processed(j)
        /\ objs[i]._is_non_eee /\ ~objs[i]._is_parent /\ objs[i]._is_subpart
        /\ objs[i].crop_url # None
        /\ OverlappingParents(i) # {}
        /\ objs[i].weee_category = Some(L_ignorado_nao_eee)
        /\ objs[j]._is_non_eee /\ objs[j]._is_parent
        /\ j \in classified

(***************************************************************************)
(* The result of analyze_image_bytes.                                      *)
(***************************************************************************)
\* the number of detections in the provider's answer to the whole-image call
Detected == IF analysis = None THEN 0 ELSE Len(Val(analysis).objects)

\* object i is the object of detection i
IsDetectionObject(o, det) ==
    /\ o.name = DetectionName(det)
    /\ o.confidence = DetectionConfidence(det)
    /\ o.bbox = DetectionBBox(det)

\* C16: when analyze_image_bytes returns, it reports the provider's scene caption and one
\* object per provider detection (in order, before any grid addition), and for every
\* returned object with a crop_url "/static/<rel>" a file exists at static_dir/<rel> inside
\* the session's crops directory, the object's caption being the one the provider gave for
\* the image in that file.
C16_ResultMatchesProviderAndFiles ==
    det_result # None =>
        LET r == Val(det_result)
            answer == Val(analysis)
        IN  /\ r.image_caption = answer.caption
            /\ Len(r.objects) = Len(answer.objects) + added
            /\ \A i \in 1..Len(answer.objects) : IsDetectionObject(r.objects[i], answer.objects[i])
            /\ \A i \in 1..Len(r.objects) :
                  r.objects[i].crop_url # None =>
                      LET url == Val(r.objects[i].crop_url)
                          rel == Tail(url)
                      IN  /\ Head(url) = "/static"
                          /\ rel[1] = "crops" /\ rel[2] = r.session_id
                          /\ \E f \in files :
                                /\ f.path = rel
                                /\ [path |-> rel, image |-> f.image,
                                    caption |-> r.objects[i].caption] \in provider_calls

\* returned with two detections, both with a crop file and a caption
C16_Witness ==
    /\ det_result # None
    /\ Detected = 2
    /\ \A i \in 1..2 : objects[i].crop_url # None /\ objects[i].caption # None

\* the place of a grid cell in the row-major scan
ScanIndex(box) == (box.y \div (pil_size[2] \div grid_n)) * grid_n + (box.x \div (pil_size[1] \div grid_n))

C17_State ==
    /\ Len(objects) = Detected + added
    /\ added > 0 => (enable_grid_fallback /\ Detected < 4)
    /\ added <= 10
    /\ \A i \in 1..Detected : IsDetectionObject(objects[i], Val(analysis).objects[i])
    /\ \A i, j \in (Detected + 1)..Len(objects) :
          i < j => ScanIndex(objects[i].bbox) < ScanIndex(objects[j].bbox)

\* C17: the grid fallback adds pseudo-objects only when it is enabled and the provider
\* returned fewer than 4 objects; it adds at most 10 of them, appends them after the detected
\* objects in row-major scan order, and leaves the detected objects unchanged.
C17_GridFallbackAdds ==
    [][ /\ C17_State'
        /\ dpc = "grid" =>
              /\ Len(objects') >= Len(objects)
              /\ SubSeq(objects', 1, Len(objects)) = objects ]_vars

\* two pseudo-objects were appended after a detected object
C17_Witness ==
    /\ dpc = "returned"
    /\ Detected >= 1
    /\ added = 2
    /\ Len(objects) = Detected + 2

\* the cells of the 3x3 grid over the image
GridCells ==
    {CellBox(pil_size[1], pil_size[2], cx, cy) : cx \in 0..(grid_n - 1), cy \in 0..(grid_n - 1)}

\* C18: every pseudo-object of the grid fallback has confidence 0.0, name equal to its
\* caption, a non-empty caption different from the caption of every object before it in the
\* list, and a bounding box that is one cell of the 3x3 grid with both sides >= the minimum
\* valid side and IoU <= 0.2 with every bounding box before it in the list.
C18_PseudoObjects ==
    \A i \in (Detected + 1)..Len(objects) :
        LET o == objects[i]
        IN  /\ o.confidence = 0
            /\ o.caption # None
            /\ Val(o.caption) # <<>>
            /\ Strip(Val(o.caption)) # <<>>
            /\ o.name = Val(o.caption)
            /\ <<o.bbox.x, o.bbox.y, o.bbox.w, o.bbox.h>> \in GridCells
            /\ o.bbox.w >= 50 /\ o.bbox.h >= 50
            /\ \A j \in 1..(i - 1) :
                  /\ objects[j].caption # o.caption
                  /\ 5 * InterArea(o.bbox, objects[j].bbox) <= UnionArea(o.bbox, objects[j].bbox)

\* a pseudo-object was added next to a captioned detection whose box covers another cell
C18_Witness ==
    /\ dpc = "returned"
    /\ added >= 1
    /\ Detected >= 1
    /\ objects[1].caption # None
    /\ \E j \in 1..Detected : \E c \in GridCells :
          5 * InterArea(objects[j].bbox, [x |-> c[1], y |-> c[2], w |-> c[3], h |-> c[4]])
              > UnionArea(objects[j].bbox, [x |-> c[1], y |-> c[2], w |-> c[3], h |-> c[4]])

(***************************************************************************)
(* IoU.                                                                    *)
(***************************************************************************)
\* two floats [num, den], den > 0, are equal
FloatEq(f, g) == f.num * g.den = g.num * f.den

IsOne(f) == FloatEq(f, [num |-> 1, den |-> 1])
IsZero(f) == FloatEq(f, [num |-> 0, den |-> 1])

\* no point lies inside both boxes
Disjoint(a, b) == InterArea(a, b) = 0

\* C19: for all rectangles A the IoU of A with an identical rectangle is 1.0, and for all
\* rectangles A, B whose intersection is empty the IoU is 0.0, for vision._iou and for
\* routes._bbox_iou.
C19_IdenticalOneDisjointZero ==
    /\ iou_v # None =>
          /\ IsOne(Val(iou_v).aa)
          /\ Disjoint(box_a, box_b) => IsZero(Val(iou_v).ab)
    /\ iou_r # None =>
          /\ IsOne(Val(iou_r).aa)
          /\ Disjoint(box_a, box_b) => IsZero(Val(iou_r).ab)

\* C19 as the code has it: the IoU of a rectangle of positive area with an identical one is
\* 1.0 (that of a rectangle of area 0 with itself is 0.0, the union area being 0), and the
\* IoU of two rectangles with an empty intersection is 0.0, for both functions.
C19_IdenticalOneDisjointZero_Amended ==
    /\ iou_v # None =>
          /\ (box_a.w > 0 /\ box_a.h > 0) => IsOne(Val(iou_v).aa)
          /\ (box_a.w = 0 \/ box_a.h = 0) => IsZero(Val(iou_v).aa)
          /\ Disjoint(box_a, box_b) => IsZero(Val(iou_v).ab)
    /\ iou_r # None =>
          /\ (box_a.w > 0 /\ box_a.h > 0) => IsOne(Val(iou_r).aa)
          /\ (box_a.w = 0 \/ box_a.h = 0) => IsZero(Val(iou_r).aa)
          /\ Disjoint(box_a, box_b) => IsZero(Val(iou_r).ab)

\* both functions were applied to a box of positive area and a box apart from it
C19_Witness ==
    /\ ipc = "done"
    /\ box_a.w > 0 /\ box_a.h > 0 /\ box_b.w > 0 /\ box_b.h > 0
    /\ box_b.x >= box_a.x + box_a.w /\ box_b.y >= box_a.y + box_a.h
    /\ IsOne(Val(iou_r).aa) /\ IsZero(Val(iou_r).ab)
    /\ IsOne(Val(iou_v).aa) /\ IsZero(Val(iou_v).ab)

\* C20: vision._iou is symmetric, IoU(A,B) = IoU(B,A) for all axis-aligned boxes A and B, and
\* it is 0 whenever the union area is 0.
C20_IouSymmetric ==
    iou_v # None =>
        /\ FloatEq(Val(iou_v).ab, Val(iou_v).ba)
        /\ UnionArea(box_a, box_b) = 0 => IsZero(Val(iou_v).ab)

\* applied to two different boxes that overlap in part
C20_Witness ==
    /\ iou_v # None
    /\ box_a.w * box_a.h # box_b.w * box_b.h
    /\ 0 < InterArea(box_a, box_b)
    /\ InterArea(box_a, box_b) < box_a.w * box_a.h
    /\ InterArea(box_a, box_b) < box_b.w * box_b.h
    /\ FloatEq(Val(iou_v).ab, Val(iou_v).ba)

(***************************************************************************)
(* Concurrent detector invocations.                                        *)
(***************************************************************************)
\* the paths invocation p has written
PathsWritten(p) == {w.path : w \in invs[p].wrote}

\* C15: for any interleaving of concurrent detector invocations, each invocation writes only
\* under its own session directories, the sets of paths written by different invocations
\* are disjoint, and the persisted files and the returned result of each are those of a run
\* alone: its files hold what it wrote last, nothing else lies in its directories, and its
\* result names its own session and files.
C15_SessionsIndependent ==
    \A p \in Invocations :
        LET l == invs[p]
        IN  /\ \A w \in l.wrote :
                  /\ l.session_id # None
                  /\ w.path[1] \in {"uploads", "crops"}
                  /\ w.path[2] = Val(l.session_id)
            /\ \A q \in Invocations \ {p} : PathsWritten(p) \cap PathsWritten(q) = {}
            /\ l.wrote \subseteq cfiles
            /\ l.session_id # None => {f \in cfiles : f.path[2] = Val(l.session_id)} = l.wrote
            /\ l.result # None =>
                  LET r == Val(l.result)
                  IN  /\ r.session_id = Val(l.session_id)
                      /\ Tail(r.original_url) \in PathsWritten(p)
                      /\ \A i \in 1..Len(r.crop_urls) :
                            r.crop_urls[i] # None =>
                                \E f \in cfiles :
                                    /\ f.path = Tail(Val(r.crop_urls[i]))
                                    /\ f.image.upload = p
                                    /\ f \in l.wrote

\* two invocations returned, each having written obj_000.jpg and extra_000.jpg in its own
\* crops directory
C15_Witness ==
    \E p \in Invocations : \E q \in Invocations \ {p} :
        /\ invs[p].result # None /\ invs[q].result # None
        /\ invs[p].session_id # invs[q].session_id
        /\ CropFile(Val(invs[p].session_id), 0) \in PathsWritten(p)
        /\ CropFile(Val(invs[q].session_id), 0) \in PathsWritten(q)
        /\ ExtraFile(Val(invs[p].session_id), 0) \in PathsWritten(p)
        /\ ExtraFile(Val(invs[q].session_id), 0) \in PathsWritten(q)
        /\ Cardinality(cfiles) = 6

(***************************************************************************)
(* The size estimator.                                                     *)
(***************************************************************************)
\* size_agent has returned for an object that carries a box
SizedWithBox == npc = "sized" /\ n_top # None /\ HasBBox(Val(n_top))

\* C21: size_agent returns no size data when no object is selected or the object has no
\* bbox; otherwise ratio = (bbox.w * bbox.h) / (W * H) with only W and H floored at 1, and
\* the bucket is "grande" exactly when ratio >= 0.20, so that a box of zero width or height
\* has ratio 0 and is "pequeno".
C21_SizeEstimator ==
    npc = "sized" =>
        LET out == Val(n_sz)
        IN  IF ~SizedWithBox
            THEN out.object_bbox = None /\ out.size_ratio = None /\ out.size_bucket = None
            ELSE LET b == Val(n_top).bbox
                     area == Max(1, n_img[1]) * Max(1, n_img[2])
                 IN  /\ out.size_ratio # None
                     \* equal denominators: the fractions are equal iff the numerators are
                     /\ Val(out.size_ratio).den = area
                     /\ Val(out.size_ratio).num = b.w * b.h
                     /\ out.size_bucket =
                            Some(IF 5 * (b.w * b.h) >= area THEN "grande" ELSE "pequeno")

(***************************************************************************)
(* The normalizer _resize_to_valid.                                        *)
(***************************************************************************)
\* the shorter side is below min_side or the longer side above max_side
NeedsRescale(size) == Min(size[1], size[2]) < min_side \/ Max(size[1], size[2]) > max_side
InBounds(size) == \A i \in 1..2 : min_side <= size[i] /\ size[i] <= max_side

\* some real s has round(w * s) = out[1] and round(h * s) = out[2]: the intervals
\* [(out[1] - 1/2) / w, (out[1] + 1/2) / w] and [(out[2] - 1/2) / h, (out[2] + 1/2) / h] meet
CommonScaleExists(size, out) ==
    /\ (2 * out[1] - 1) * size[2] <= (2 * out[2] + 1) * size[1]
    /\ (2 * out[2] - 1) * size[1] <= (2 * out[1] + 1) * size[2]

\* the longer side is at most max_side / min_side (320) times the shorter one
RatioFits(size) == Max(size[1], size[2]) * min_side <= Min(size[1], size[2]) * max_side

\* C22: whenever the normalizer rescales an image, the output has both sides within
\* [50, 16000] and is (round(w*s), round(h*s)) for one common scale factor s, for every
\* input size.
C22_RescaleKeepsAspect ==
    (n_pil # None /\ NeedsRescale(n_img)) =>
        InBounds(Val(n_pil)) /\ CommonScaleExists(n_img, Val(n_pil))

\* C22 (amended): whenever the normalizer rescales an image, the output has both sides within
\* [50, 16000]; it is (round(w*s), round(h*s)) for one common scale factor s whenever the
\* longer side of the input is at most 320 times its shorter side.
C22_RescaleKeepsAspect_Amended ==
    (n_pil # None /\ NeedsRescale(n_img)) =>
        /\ InBounds(Val(n_pil))
        /\ RatioFits(n_img) => CommonScaleExists(n_img, Val(n_pil))

\* a 49x100 image was scaled up to 50x102
C22_Witness == n_img = <<49, 100>> /\ n_pil = Some(<<50, 102>>)

\* C23: normalizing an image whose sides are both within [50, 16000] returns it with its
\* dimensions unchanged, and normalizing the normalizer's own output again changes nothing.
C23_NormalizeIdempotent ==
    n_pil # None =>
        /\ InBounds(n_img) => Val(n_pil) = n_img
        /\ _resize_to_valid(Val(n_pil)) = Val(n_pil)

\* an image on both bounds went through unchanged, or a tall narrow one was clamped to both
C23_Witness ==
    /\ npc = "normalized"
    /\ \/ n_img = <<50, 16000>> /\ n_pil = Some(<<50, 16000>>)
       \/ n_img = <<1, 20000>> /\ n_pil = Some(<<50, 16000>>)

\* box b lies inside an image of the given size
InsideImage(b, size) ==
    b.x >= 0 /\ b.y >= 0 /\ b.x + b.w <= size[1] /\ b.y + b.h <= size[2]

\* C28: for every image and every selected object whose box lies inside the image the
\* detector analysed, the size ratio reported by classify_image_bytes is greater than 0 and
\* at most 1, images rescaled by the normalizer included.
C28_RatioWithinUnit ==
    (SizedWithBox /\ InsideImage(Val(n_top).bbox, Val(n_pil))) =>
        LET ratio == Val(Val(n_sz).size_ratio)
        IN  0 < ratio.num /\ ratio.num <= ratio.den

PartOf(i) ==
    IF Processed(i) /\ IsPartOfMark(objs[i].weee_category)
    THEN SubpartOf(objs, parent_idxs, i)
    ELSE 0

\* C27: deduplication never suppresses both members of an overlapping pair: if object A is
\* marked "ignored (part of B)" then B is not marked as ignored as part of A, and no object
\* is marked as part of itself.
C27_NoMutualSuppression ==
    \A i \in 1..Len(objs) :
        /\ PartOf(i) # i
        /\ PartOf(i) # 0 => PartOf(PartOf(i)) # i

(***************************************************************************)
(* The messaging webhooks.                                                 *)
(***************************************************************************)
\* the handler did ev at position i of its log
Logged(i, ev) == i \in 1..Len(hk_log) /\ hk_log[i].ev = ev
HasLogged(ev) == \E i \in 1..Len(hk_log) : Logged(i, ev)
Replied(body) == hk_reply # None /\ Val(hk_reply).body = body

\* the replies that report a failure to the sender
TwErrorBodies ==
    {"Falha ao baixar a imagem. Tente novamente.",
     "Erro ao processar a mensagem. Tente novamente.",
     "Erro ao encaminhar o laudo ao revisor."}

\* C24: in the Twilio webhook the reply confirming that the report was sent on to USER02
\* is given only after classification completed and the send of the report to USER02
\* succeeded; if the download, the classification or the send fails, USER01 receives an
\* error reply and never the confirmation; and USER02 is told that its message was forwarded
\* only after it was forwarded to USER01.
C24_TwilioConfirmsAfterSend ==
    /\ Replied(TwConfirmBody) =>
          /\ hk_req.From = hk_env.user01
          /\ \E i \in 1..Len(hk_log) : \E j \in (i + 1)..Len(hk_log) :
                /\ Logged(i, "classified")
                /\ Logged(j, "report_sent") /\ hk_log[j].to = hk_env.user02
    /\ (hk_req.From = hk_env.user01
            /\ (HasLogged("download_failed") \/ HasLogged("classify_failed")
                    \/ HasLogged("send_failed"))) =>
          /\ hk_reply # None
          /\ Val(hk_reply).body \in TwErrorBodies
    /\ Replied(TwForwardedBody) =>
          /\ hk_req.From = hk_env.user02
          /\ \E j \in 1..Len(hk_log) : Logged(j, "forwarded") /\ hk_log[j].to = hk_env.user01

\* USER01 got the confirmation after download, classification and send
C24_Witness ==
    /\ hpc = "done"
    /\ hk_req.From = "u1"
    /\ Replied(TwConfirmBody)
    /\ hk_log = << HookEvent("downloaded", "", 0), HookEvent("classified", "", 0),
                   HookEvent("report_sent", "u2", 0) >>

\* the payload is a JSON object and its first n messages are dicts
MtWellFormedUpTo(n) ==
    /\ hk_req.json = "object"
    /\ \A m \in 1..n : hk_req.messages[m].type # "malformed"

\* message m of the payload was gone through
MtHandled(m) == \E i \in 1..Len(hk_log) : hk_log[i].k = m

\* C25: the Meta webhook answers every POST with HTTP 200 whatever the payload and whatever
\* fails internally, and a failure while handling one message of a payload (download,
\* classification or send) does not prevent the later messages of the payload from being
\* handled: when the handler has answered, every message up to the first malformed one has
\* been gone through, and a payload without a malformed part is answered "ok" or "ignored".
C25_MetaAlways200 ==
    /\ hpc # "done" => ENABLED NextMeta
    /\ hpc = "done" => hk_reply # None /\ Val(hk_reply).status = 200
    /\ hpc = "done" =>
          \A n \in 1..Len(hk_req.messages) : MtWellFormedUpTo(n) => MtHandled(n)
    /\ (hpc = "done" /\ MtWellFormedUpTo(Len(hk_req.messages))) =>
          Val(hk_reply).body = (IF hk_req.messages = <<>> THEN "ignored" ELSE "ok")

\* the classification of the first message failed and the text of the second one was
\* forwarded all the same
C25_Witness ==
    /\ hpc = "done"
    /\ Len(hk_req.messages) = 2
    /\ \E i \in 1..Len(hk_log) : hk_log[i] = HookEvent("classify_failed", "", 1)
    /\ \E i \in 1..Len(hk_log) : hk_log[i] = HookEvent("forwarded", "u1", 2)
    /\ hk_reply = HookReply(200, "ok")

\* C26: in the Telegram webhook USER01 is told that the report was sent to USER02 only
\* if a report message was delivered to USER02 beforehand: no confirmation when USER02 is
\* not configured or when the send to USER02 returned an error status.
C26_TelegramConfirmsAfterDelivery ==
    \A i \in 1..Len(hk_log) :
        Logged(i, "confirmed") =>
            /\ hk_env.user02 # ""
            /\ \E j \in 1..(i - 1) : Logged(j, "report_sent") /\ hk_log[j].to = hk_env.user02

=============================================================================
